---- MODULE Spec2Model ----
(***************************************************************************)
(* Model of the restaurant ordering assistant (verticals/restaurant).      *)
(*                                                                         *)
(* One turn of the conversation is RestaurantService.process_message: the  *)
(* caller hands in an utterance and the state blob it holds, and gets back *)
(* a reply, the updated blob and, on a successful checkout, a link.        *)
(*                                                                         *)
(* Text is modelled at the level of characters: a Python str is a sequence *)
(* of one-character strings, so that normalisation, tokenisation,          *)
(* substring tests and the regular expressions of service.py are computed  *)
(* as the code computes them.  An accented character is written as its     *)
(* base letter followed by a mark ("a~", "e'", "c,"), still one element of *)
(* the sequence.  Money is in cents.                                       *)
(***************************************************************************)
EXTENDS Integers, Sequences, FiniteSets, TLC

VARIABLES
    config,     \* the catalog loaded by RestaurantService.__init__
    state,      \* the state blob the caller holds (returned by the last turn)
    prev,       \* the blob the last turn received, before it was touched
    message,    \* the utterance of the last turn
    response,   \* the payload the last turn returned (text, whatsapp_link)
    flow        \* history: progress of a confirm -> name -> address run

vars == <<config, state, prev, message, response, flow>>

(***************************************************************************)
(* Characters and strings                                                  *)
(***************************************************************************)
LowerAlpha ==
    <<"a","b","c","d","e","f","g","h","i","j","k","l","m",
      "n","o","p","q","r","s","t","u","v","w","x","y","z">>

UpperAlpha ==
    <<"A","B","C","D","E","F","G","H","I","J","K","L","M",
      "N","O","P","Q","R","S","T","U","V","W","X","Y","Z">>

DigitChars ==
    <<"0","1","2","3","4","5","6","7","8","9">>

\* accented lower-case letters and their base letter (NFD minus the Mn mark)
AccentBase ==
    [c \in {"a~", "e'", "c,", "o~"} |->
        CASE c = "a~" -> "a" [] c = "e'" -> "e" [] c = "c," -> "c" [] c = "o~" -> "o"]

InSeq(seq, c) ==
    \E i \in 1..Len(seq) : seq[i] = c

IndexOf(seq, c) ==
    CHOOSE i \in 1..Len(seq) : seq[i] = c

IsDigit(c) ==
    InSeq(DigitChars, c)

DigitValue(c) ==
    IndexOf(DigitChars, c) - 1

IsAccented(c) ==
    c \in DOMAIN AccentBase

\* str.isalpha() of one character
IsAlpha(c) ==
    InSeq(LowerAlpha, c) \/ InSeq(UpperAlpha, c) \/ IsAccented(c)

\* \w of the re module: letters, digits and the underscore
IsWordChar(c) ==
    IsAlpha(c) \/ IsDigit(c) \/ c = "_"

\* \s of the re module, and what str.strip() removes
IsSpace(c) ==
    c = " "

\* str.lower() of one character
LowerChar(c) ==
    IF InSeq(UpperAlpha, c) THEN LowerAlpha[IndexOf(UpperAlpha, c)] ELSE c

\* str.upper() of one character
UpperChar(c) ==
    IF InSeq(LowerAlpha, c) THEN UpperAlpha[IndexOf(LowerAlpha, c)] ELSE c

lower(text) ==
    [i \in 1..Len(text) |-> LowerChar(text[i])]

upper(text) ==
    [i \in 1..Len(text) |-> UpperChar(text[i])]

\* str.title(): a letter is upper-cased after a non-letter, lower-cased after a letter
title(text) ==
    [i \in 1..Len(text) |->
        IF i = 1 \/ ~IsAlpha(text[i - 1]) THEN UpperChar(text[i]) ELSE LowerChar(text[i])]

RECURSIVE lstrip(_)
lstrip(text) ==
    IF text # <<>> /\ IsSpace(Head(text)) THEN lstrip(Tail(text)) ELSE text

RECURSIVE rstrip(_)
rstrip(text) ==
    IF text # <<>> /\ IsSpace(text[Len(text)])
    THEN rstrip(SubSeq(text, 1, Len(text) - 1))
    ELSE text

strip(text) ==
    rstrip(lstrip(text))

\* `needle in text` of two Python strings
Contains(text, needle) ==
    \E i \in 1..(Len(text) - Len(needle) + 1) :
        SubSeq(text, i, i + Len(needle) - 1) = needle

startswith(text, prefix) ==
    Len(prefix) <= Len(text) /\ SubSeq(text, 1, Len(prefix)) = prefix

endswith(text, suffix) ==
    Len(suffix) <= Len(text)
    /\ SubSeq(text, Len(text) - Len(suffix) + 1, Len(text)) = suffix

\* str.isdigit()
isdigit(token) ==
    token # <<>> /\ \A i \in 1..Len(token) : IsDigit(token[i])

RECURSIVE int(_)
int(token) ==
    IF token = <<>> THEN 0
    ELSE 10 * int(SubSeq(token, 1, Len(token) - 1)) + DigitValue(token[Len(token)])

Max(a, b) ==
    IF a >= b THEN a ELSE b

Min(a, b) ==
    IF a <= b THEN a ELSE b

_strip_accents(text) ==
    [i \in 1..Len(text) |-> IF IsAccented(text[i]) THEN AccentBase[text[i]] ELSE text[i]]

\* re.sub(r"[^a-z0-9]+", " ", text): every run of other characters becomes one space
RECURSIVE SubNonAlnum(_, _)
SubNonAlnum(text, acc) ==
    IF text = <<>> THEN acc
    ELSE LET c == Head(text)
             keep == InSeq(LowerAlpha, c) \/ IsDigit(c)
         IN  IF keep THEN SubNonAlnum(Tail(text), Append(acc, c))
             ELSE IF acc # <<>> /\ acc[Len(acc)] = " " THEN SubNonAlnum(Tail(text), acc)
             ELSE SubNonAlnum(Tail(text), Append(acc, " "))

_normalize_text(text) ==
    strip(SubNonAlnum(_strip_accents(lower(text)), <<>>))

\* str.split() on whitespace
RECURSIVE split(_, _, _)
split(text, cur, acc) ==
    IF text = <<>> THEN (IF cur = <<>> THEN acc ELSE Append(acc, cur))
    ELSE IF IsSpace(Head(text))
         THEN split(Tail(text), <<>>, IF cur = <<>> THEN acc ELSE Append(acc, cur))
         ELSE split(Tail(text), Append(cur, Head(text)), acc)

_tokenize(text) ==
    LET normalized == _normalize_text(text)
    IN  IF normalized # <<>> THEN split(normalized, <<>>, <<>>) ELSE <<>>

\* " ".join(tokens)
RECURSIVE join(_)
join(tokens) ==
    IF tokens = <<>> THEN <<>>
    ELSE IF Len(tokens) = 1 THEN tokens[1]
    ELSE tokens[1] \o <<" ">> \o join(Tail(tokens))

(***************************************************************************)
(* service.py: keyword tables                                              *)
(***************************************************************************)
None ==
    <<>>

MENU_KEYWORDS ==
    { <<"m","e","n","u">> (* menu *),
      <<"c","a","r","d","a","p","i","o">> (* cardapio *) }

PROMO_KEYWORDS ==
    { <<"p","r","o","m","o">> (* promo *),
      <<"p","r","o","m","o","c","a","o">> (* promocao *),
      <<"p","r","o","m","o","c","o","e","s">> (* promocoes *) }

FINISH_KEYWORDS ==
    { <<"f","i","n","a","l","i","z","a","r">> (* finalizar *),
      <<"f","e","c","h","a","r">> (* fechar *),
      <<"e","n","c","e","r","r","a","r">> (* encerrar *),
      <<"c","h","e","c","k","o","u","t">> (* checkout *) }

CONFIRM_KEYWORDS ==
    { <<"s","i","m">> (* sim *),
      <<"c","o","n","f","i","r","m","a","r">> (* confirmar *),
      <<"c","o","n","f","i","r","m","o">> (* confirmo *),
      <<"o","k">> (* ok *),
      <<"p","o","d","e">> (* pode *) }

EDIT_KEYWORDS ==
    { <<"e","d","i","t","a","r">> (* editar *),
      <<"m","u","d","a","r">> (* mudar *),
      <<"a","l","t","e","r","a","r">> (* alterar *),
      <<"n","a","o">> (* nao *),
      <<"c","a","n","c","e","l","a","r">> (* cancelar *),
      <<"v","o","l","t","a","r">> (* voltar *) }

REMOVE_KEYWORDS ==
    { <<"r","e","m","o","v","e","r">> (* remover *),
      <<"t","i","r","a","r">> (* tirar *),
      <<"e","x","c","l","u","i","r">> (* excluir *),
      <<"d","e","l","e","t","a","r">> (* deletar *) }

\* the dict NUMBER_WORDS as its set of (word, value) items
NUMBER_WORDS ==
    { << <<"u","m">> (* um *), 1 >>,
      << <<"u","m","a">> (* uma *), 1 >>,
      << <<"d","o","i","s">> (* dois *), 2 >>,
      << <<"d","u","a","s">> (* duas *), 2 >>,
      << <<"t","r","e","s">> (* tres *), 3 >>,
      << <<"q","u","a","t","r","o">> (* quatro *), 4 >>,
      << <<"c","i","n","c","o">> (* cinco *), 5 >>,
      << <<"s","e","i","s">> (* seis *), 6 >>,
      << <<"s","e","t","e">> (* sete *), 7 >>,
      << <<"o","i","t","o">> (* oito *), 8 >>,
      << <<"n","o","v","e">> (* nove *), 9 >>,
      << <<"d","e","z">> (* dez *), 10 >>,
      << <<"o","n","z","e">> (* onze *), 11 >>,
      << <<"d","o","z","e">> (* doze *), 12 >> }

GENERIC_ITEM_TOKENS ==
    { <<"p","i","z","z","a">> (* pizza *),
      <<"p","i","z","z","a","s">> (* pizzas *),
      <<"b","e","b","i","d","a">> (* bebida *),
      <<"b","e","b","i","d","a","s">> (* bebidas *),
      <<"l","a","n","c","h","e">> (* lanche *),
      <<"l","a","n","c","h","e","s">> (* lanches *),
      <<"c","o","m","b","o">> (* combo *),
      <<"c","o","m","b","o","s">> (* combos *),
      <<"s","a","b","o","r">> (* sabor *),
      <<"s","a","b","o","r","e","s">> (* sabores *),
      <<"t","a","m","a","n","h","o">> (* tamanho *),
      <<"m","e","d","i","a">> (* media *),
      <<"g","r","a","n","d","e">> (* grande *) }

\* ConversationStep
ORDERING == "ordering"
CONFIRMATION == "confirmation"
AWAITING_NAME == "awaiting_name"
AWAITING_ADDRESS == "awaiting_address"

ConversationStep ==
    {ORDERING, CONFIRMATION, AWAITING_NAME, AWAITING_ADDRESS}

\* IntentType
SHOW_MENU == "show_menu"
SHOW_PROMOS == "show_promos"
FINISH == "finish"
CONFIRM == "confirm"
EDIT == "edit"
ADD_ITEM == "add_item"
REMOVE_ITEM == "remove_item"
UNKNOWN == "unknown"

\* Intent(type, item=None, quantity=1)
Intent(type, item, quantity) ==
    [type |-> type, item |-> item, quantity |-> quantity]

(***************************************************************************)
(* service.py: catalog index and item matching                             *)
(***************************************************************************)
_singularize(token) ==
    IF Len(token) > 3 /\ endswith(token, <<"s">>)
    THEN SubSeq(token, 1, Len(token) - 1)
    ELSE token

_token_matches_item(token, item_token) ==
    LET t == _singularize(token)
        it == _singularize(item_token)
    IN  \/ t = it
        \/ Len(t) > 3 /\ startswith(it, t)
        \/ Len(it) > 3 /\ startswith(t, it)

\* filter keeping the order of the sequence
RECURSIVE SelectTokens(_)
SelectTokens(tokens) ==
    IF tokens = <<>> THEN <<>>
    ELSE IF Head(tokens) \in GENERIC_ITEM_TOKENS THEN SelectTokens(Tail(tokens))
    ELSE <<Head(tokens)>> \o SelectTokens(Tail(tokens))

IndexedItem(item, category) ==
    [item |-> item,
     category |-> category,
     id_norm |-> _normalize_text(item.id),
     name_norm |-> _normalize_text(item.name),
     tokens |-> SelectTokens(_tokenize(item.name))]

RECURSIVE IndexCategory(_, _)
IndexCategory(category, entries) ==
    IF entries = <<>> THEN <<>>
    ELSE <<IndexedItem(Head(entries), category)>> \o IndexCategory(category, Tail(entries))

RECURSIVE IndexMenu(_)
IndexMenu(menu) ==
    IF menu = <<>> THEN <<>>
    ELSE IndexCategory(Head(menu).category, Head(menu).items) \o IndexMenu(Tail(menu))

_build_item_index(cfg) ==
    IndexMenu(cfg.menu)

\* number of utterance tokens that match some significant token of the item
RECURSIVE CountMatches(_, _)
CountMatches(tokens, item_tokens) ==
    IF tokens = <<>> THEN 0
    ELSE (IF \E j \in 1..Len(item_tokens) : _token_matches_item(Head(tokens), item_tokens[j])
          THEN 1 ELSE 0)
         + CountMatches(Tail(tokens), item_tokens)

\* the loop of lines 194-205: best carries (best_score, best_item)
RECURSIVE BestByTokens(_, _, _, _)
BestByTokens(tokens, indexed_items, best_score, best_item) ==
    IF indexed_items = <<>> THEN best_item
    ELSE LET indexed == Head(indexed_items)
             matches == CountMatches(tokens, indexed.tokens)
         IN  IF indexed.tokens = <<>>
             THEN BestByTokens(tokens, Tail(indexed_items), best_score, best_item)
             ELSE IF matches >= Max(1, Min(2, Len(indexed.tokens))) /\ matches > best_score
             THEN BestByTokens(tokens, Tail(indexed_items), matches, indexed)
             ELSE BestByTokens(tokens, Tail(indexed_items), best_score, best_item)

_match_item(text, indexed_items) ==
    LET normalized_text == _normalize_text(text)
        tokens == _tokenize(text)
        byId == {i \in 1..Len(indexed_items) :
                    /\ indexed_items[i].id_norm # <<>>
                    /\ Contains(normalized_text, indexed_items[i].id_norm)}
        byName == {i \in 1..Len(indexed_items) :
                    /\ indexed_items[i].name_norm # <<>>
                    /\ Contains(normalized_text, indexed_items[i].name_norm)}
        first(S) == indexed_items[CHOOSE i \in S : \A j \in S : i <= j]
    IN  IF byId # {} THEN first(byId)
        ELSE IF byName # {} THEN first(byName)
        ELSE BestByTokens(tokens, indexed_items, 0, None)

(***************************************************************************)
(* service.py: quantity extraction                                         *)
(***************************************************************************)
IsNumberWord(token) ==
    \E p \in NUMBER_WORDS : p[1] = token

NumberWordValue(token) ==
    (CHOOSE p \in NUMBER_WORDS : p[1] = token)[2]

\* None is modelled as 0: every caller only tests the result for truth, and
\* every quantity found is at least 1
RECURSIVE _quantity_from_tokens(_)
_quantity_from_tokens(tokens) ==
    IF tokens = <<>> THEN 0
    ELSE LET token == Head(tokens)
         IN  IF isdigit(token) THEN Max(int(token), 1)
             ELSE IF IsNumberWord(_singularize(token))
             THEN NumberWordValue(_singularize(token))
             ELSE _quantity_from_tokens(Tail(tokens))

\* the loop of lines 227-232 from position i on: 0 when no window gives a quantity
RECURSIVE QuantityBeforeItem(_, _, _)
QuantityBeforeItem(tokens, item_tokens, i) ==
    IF i > Len(tokens) THEN 0
    ELSE LET hit == \E j \in 1..Len(item_tokens) :
                        /\ item_tokens[j] # <<>>
                        /\ _token_matches_item(tokens[i], item_tokens[j])
             window_start == Max(1, i - 2)
             qty == _quantity_from_tokens(SubSeq(tokens, window_start, i - 1))
         IN  IF hit /\ qty # 0 THEN qty
             ELSE QuantityBeforeItem(tokens, item_tokens, i + 1)

\* re.search(r"\b(\d+)\s*x\b", normalized): on normalised text (tokens of
\* [a-z0-9] separated by single spaces) the pattern matches at the first token
\* that is digits followed by "x", or all digits and followed by the token "x";
\* the result is the digits, <<>> when there is no match
IsDigitsX(token) ==
    /\ Len(token) >= 2
    /\ token[Len(token)] = "x"
    /\ isdigit(SubSeq(token, 1, Len(token) - 1))

RECURSIVE SearchTimesX(_)
SearchTimesX(tokens) ==
    IF tokens = <<>> THEN <<>>
    ELSE IF IsDigitsX(Head(tokens)) THEN SubSeq(Head(tokens), 1, Len(Head(tokens)) - 1)
    ELSE IF isdigit(Head(tokens)) /\ Len(tokens) >= 2 /\ tokens[2] = <<"x">>
    THEN Head(tokens)
    ELSE SearchTimesX(Tail(tokens))

_extract_quantity(text, indexed) ==
    LET tokens == _tokenize(text)
        item_tokens == IF indexed # None THEN indexed.tokens \o <<indexed.id_norm>> ELSE <<>>
        near == IF indexed # None THEN QuantityBeforeItem(tokens, item_tokens, 1) ELSE 0
        match == SearchTimesX(tokens)
        qty == _quantity_from_tokens(tokens)
    IN  IF tokens = <<>> THEN 1
        ELSE IF near # 0 THEN near
        ELSE IF match # <<>> THEN Max(int(match), 1)
        ELSE IF qty # 0 THEN qty
        ELSE 1

(***************************************************************************)
(* service.py: customer info helpers                                       *)
(***************************************************************************)
\* re.sub(r"\D+", "", value)
RECURSIVE OnlyDigits(_)
OnlyDigits(value) ==
    IF value = <<>> THEN <<>>
    ELSE IF IsDigit(Head(value)) THEN <<Head(value)>> \o OnlyDigits(Tail(value))
    ELSE OnlyDigits(Tail(value))

_looks_like_phone(value) ==
    LET digits == OnlyDigits(value)
    IN  10 <= Len(digits) /\ Len(digits) <= 13

_normalize_phone(value) ==
    LET digits == OnlyDigits(value)
    IN  IF 10 <= Len(digits) /\ Len(digits) <= 13 THEN digits ELSE None

\* re.search(r"\b(meu nome e|me chamo|sou)\s+(.+)", normalized).group(2): on
\* normalised text the match starts at the first token position where the
\* tokens of one alternative are followed by at least one more token, and
\* group 2 is the rest of the text
NamePrefixes ==
    { << <<"m","e","u">> (* meu *), <<"n","o","m","e">> (* nome *), <<"e">> (* e *) >>,
      << <<"m","e">> (* me *), <<"c","h","a","m","o">> (* chamo *) >>,
      << <<"s","o","u">> (* sou *) >> }

RECURSIVE SearchName(_)
SearchName(tokens) ==
    IF tokens = <<>> THEN None
    ELSE IF \E p \in NamePrefixes : Len(tokens) > Len(p) /\ SubSeq(tokens, 1, Len(p)) = p
    THEN LET p == CHOOSE q \in NamePrefixes :
                      Len(tokens) > Len(q) /\ SubSeq(tokens, 1, Len(q)) = q
         IN  join(SubSeq(tokens, Len(p) + 1, Len(tokens)))
    ELSE SearchName(Tail(tokens))

_extract_name(text) ==
    LET group2 == SearchName(_tokenize(text))
    IN  IF group2 # None THEN title(strip(group2)) ELSE None

\* re.search(r"\b(endereco|endereco)\s*(e|e|:)?\s+(.+)", text, re.IGNORECASE)
\* tried at position i of the raw text; the result is group 3, None when the
\* pattern does not match at i.  After the word and its w spaces, the optional
\* (e|:) is taken when a space and one more character follow it; otherwise the
\* last of the w spaces serves as \s+ and group 3 starts right after it.
AddressWord ==
    <<"e","n","d","e","r","e","c","o">> (* endereco *)

RECURSIVE CountSpaces(_, _)
CountSpaces(text, p) ==
    IF p <= Len(text) /\ IsSpace(text[p]) THEN 1 + CountSpaces(text, p + 1) ELSE 0

AddressMatchAt(text, i) ==
    LET n == Len(text)
        p == i + Len(AddressWord)
        w == CountSpaces(text, p)
        c == p + w
        m == CountSpaces(text, c + 1)
        withSep == /\ c <= n
                   /\ LowerChar(text[c]) \in {"e", ":"}
                   /\ m >= 1
                   /\ c + 2 <= n
    IN  IF ~( /\ p - 1 <= n
              /\ lower(SubSeq(text, i, p - 1)) = AddressWord
              /\ (i = 1 \/ ~IsWordChar(text[i - 1])) )
        THEN None
        ELSE IF withSep
        THEN (IF c + m + 1 <= n THEN SubSeq(text, c + m + 1, n) ELSE <<" ">>)
        ELSE IF w >= 1 /\ c <= n THEN SubSeq(text, c, n)
        ELSE IF w >= 2 THEN <<" ">>
        ELSE None

RECURSIVE SearchAddress(_, _)
SearchAddress(text, i) ==
    IF i > Len(text) THEN None
    ELSE IF AddressMatchAt(text, i) # None THEN AddressMatchAt(text, i)
    ELSE SearchAddress(text, i + 1)

_extract_address(text) ==
    LET group3 == SearchAddress(text, 1)
    IN  IF group3 # None THEN strip(group3) ELSE None

\* variant: the length test alone, without the letter test
_is_valid_name_length_only(name) ==
    Len(strip(name)) >= 2

_is_valid_name(name) ==
    LET cleaned == strip(name)
    IN  IF Len(cleaned) < 2 THEN FALSE
        ELSE \E i \in 1..Len(cleaned) : IsAlpha(cleaned[i])

\* variant: an address must be longer than 6 characters
_is_valid_address_longer(address) ==
    Len(strip(address)) > 6

_is_valid_address(address) ==
    Len(strip(address)) >= 6

(***************************************************************************)
(* service.py: intent recognition                                          *)
(***************************************************************************)
HasKeyword(text, keywords) ==
    \E keyword \in keywords : Contains(text, keyword)

\* variant: an item reference is looked for before the command keywords
parse_intent_items_first(msg, indexed_items) ==
    LET text == _normalize_text(msg)
        indexed == _match_item(msg, indexed_items)
    IN  IF indexed # None
        THEN (IF HasKeyword(text, REMOVE_KEYWORDS)
              THEN Intent(REMOVE_ITEM, indexed.item, _extract_quantity(msg, indexed))
              ELSE Intent(ADD_ITEM, indexed.item, _extract_quantity(msg, indexed)))
        ELSE IF HasKeyword(text, MENU_KEYWORDS) THEN Intent(SHOW_MENU, None, 1)
        ELSE IF HasKeyword(text, PROMO_KEYWORDS) THEN Intent(SHOW_PROMOS, None, 1)
        ELSE IF HasKeyword(text, FINISH_KEYWORDS) THEN Intent(FINISH, None, 1)
        ELSE IF HasKeyword(text, CONFIRM_KEYWORDS) THEN Intent(CONFIRM, None, 1)
        ELSE IF HasKeyword(text, EDIT_KEYWORDS) THEN Intent(EDIT, None, 1)
        ELSE Intent(UNKNOWN, None, 1)

parse_intent(msg, indexed_items) ==
    LET text == _normalize_text(msg)
        indexed == _match_item(msg, indexed_items)
    IN  IF HasKeyword(text, MENU_KEYWORDS) THEN Intent(SHOW_MENU, None, 1)
        ELSE IF HasKeyword(text, PROMO_KEYWORDS) THEN Intent(SHOW_PROMOS, None, 1)
        ELSE IF HasKeyword(text, FINISH_KEYWORDS) THEN Intent(FINISH, None, 1)
        ELSE IF HasKeyword(text, CONFIRM_KEYWORDS) THEN Intent(CONFIRM, None, 1)
        ELSE IF HasKeyword(text, EDIT_KEYWORDS) THEN Intent(EDIT, None, 1)
        ELSE IF indexed # None
        THEN (IF HasKeyword(text, REMOVE_KEYWORDS)
              THEN Intent(REMOVE_ITEM, indexed.item, _extract_quantity(msg, indexed))
              ELSE Intent(ADD_ITEM, indexed.item, _extract_quantity(msg, indexed)))
        ELSE Intent(UNKNOWN, None, 1)

(***************************************************************************)
(* config_schema.py: the catalog.  menu is the dict of categories in its   *)
(* insertion order; opening_hours gives each day its parsed value: kind    *)
(* "empty" for a missing or empty string, "closed" for the literals        *)
(* closed/fechado, "intervals" with the (start, end) pairs in minutes.     *)
(***************************************************************************)
MenuItem(id, name, price, description) ==
    [id |-> id, name |-> name, price |-> price, description |-> description]

PromotionRule(trigger, suggest, msg) ==
    [trigger |-> trigger, suggest |-> suggest, message |-> msg]

DAY_ORDER ==
    <<"monday", "tuesday", "wednesday", "thursday", "friday", "saturday", "sunday">>

Hours(kind, intervals) ==
    [kind |-> kind, intervals |-> intervals]

HHMM(h, m) ==
    60 * h + m

ItemP1 ==
    MenuItem(<<"p","1">> (* p1 *), <<"P","i","z","z","a"," ","M","a","r","g","h","e","r","i","t","a">> (* Pizza Margherita *), 4000, <<>>)

ItemB1 ==
    MenuItem(<<"b","1">> (* b1 *), <<"G","u","a","r","a","n","a">> (* Guarana *), 600, <<"l","a","t","a">> (* lata *))

Evening ==
    Hours("intervals", << <<HHMM(18, 0), HHMM(23, 0)>> >>)

LateNight ==
    Hours("intervals", << <<HHMM(22, 0), HHMM(2, 0)>> >>)

RestaurantConfig ==
    [name |-> <<"P","i","z","z","a","r","i","a">> (* Pizzaria *),
     whatsapp_number |-> <<"5","5","1","1">> (* 5511 *),
     delivery_fee |-> 500,
     opening_hours |->
        [d \in {DAY_ORDER[i] : i \in 1..Len(DAY_ORDER)} |->
            CASE d = "friday" -> LateNight
              [] d = "sunday" -> Hours("closed", <<>>)
              [] OTHER -> Evening],
     menu |-> << [category |-> <<"P","i","z","z","a","s">> (* Pizzas *), items |-> <<ItemP1>>],
                 [category |-> <<"B","e","b","i","d","a","s">> (* Bebidas *), items |-> <<ItemB1>>] >>,
     promotions |-> << PromotionRule(<<"p","1">> (* p1 *), <<"b","1">> (* b1 *), <<"P","r","o","m","o">> (* Promo *)) >>,
     upsell_rules |-> <<>>]

Configs ==
    {RestaurantConfig}

\* a catalog whose ids are short codes: one id is the beginning of another,
\* and one id is a number
ItemP10 ==
    MenuItem(<<"p","1","0">> (* p10 *), <<"P","i","z","z","a"," ","C","a","l","a","b","r","e","s","a">> (* Pizza Calabresa *), 4500, <<>>)

Item2 ==
    MenuItem(<<"2">> (* 2 *), <<"S","u","c","o">> (* Suco *), 800, <<>>)

CodesConfig ==
    [RestaurantConfig EXCEPT
        !.menu = << [category |-> <<"P","i","z","z","a","s">> (* Pizzas *), items |-> <<ItemP1, ItemP10>>],
                    [category |-> <<"B","e","b","i","d","a","s">> (* Bebidas *), items |-> <<Item2>>] >>,
        !.promotions = <<>>]

\* a catalog whose item names share words: two items with the one significant
\* token "calabresa", two with "laranja" beside a token of their own
ItemT1 == MenuItem(<<"t","1">> (* t1 *), <<"P","i","z","z","a"," ","C","a","l","a","b","r","e","s","a">> (* Pizza Calabresa *), 4500, <<>>)
ItemT2 == MenuItem(<<"t","2">> (* t2 *), <<"L","a","n","c","h","e"," ","C","a","l","a","b","r","e","s","a">> (* Lanche Calabresa *), 2500, <<>>)
ItemT3 == MenuItem(<<"t","3">> (* t3 *), <<"S","u","c","o"," ","L","a","r","a","n","j","a">> (* Suco Laranja *), 800, <<>>)
ItemT4 == MenuItem(<<"t","4">> (* t4 *), <<"B","o","l","o"," ","L","a","r","a","n","j","a">> (* Bolo Laranja *), 900, <<>>)

SharedWordsConfig ==
    [RestaurantConfig EXCEPT
        !.menu = << [category |-> <<"P","i","z","z","a","s">> (* Pizzas *), items |-> <<ItemT1, ItemT2>>],
                    [category |-> <<"O","u","t","r","o","s">> (* Outros *), items |-> <<ItemT3, ItemT4>>] >>,
        !.promotions = <<>>]

AllConfigs ==
    Configs \cup {CodesConfig, SharedWordsConfig}

\* opening hours with two shifts a day, windows crossing midnight on several
\* days (sunday into monday among them), a closed day and a day without entry
SplitShift ==
    Hours("intervals", << <<HHMM(11, 0), HHMM(14, 0)>>, <<HHMM(22, 0), HHMM(2, 0)>> >>)

SplitShiftConfig ==
    [RestaurantConfig EXCEPT
        !.opening_hours =
            [d \in {DAY_ORDER[i] : i \in 1..Len(DAY_ORDER)} \ {"saturday"} |->
                CASE d \in {"friday", "sunday"} -> LateNight
                  [] d = "wednesday" -> SplitShift
                  [] d = "thursday" -> Hours("closed", <<>>)
                  [] OTHER -> Evening]]

HoursConfigs ==
    {RestaurantConfig, SplitShiftConfig}

(***************************************************************************)
(* tools.py                                                                *)
(***************************************************************************)
_is_open_for_hours(hours, now_time) ==
    IF hours.kind # "intervals" THEN FALSE
    ELSE \E i \in 1..Len(hours.intervals) :
            LET start == hours.intervals[i][1]
                end == hours.intervals[i][2]
            IN  IF end <= start
                THEN now_time >= start \/ now_time < end
                ELSE start <= now_time /\ now_time < end

_is_open_from_prev_day(hours, now_time) ==
    IF hours.kind # "intervals" THEN FALSE
    ELSE \E i \in 1..Len(hours.intervals) :
            LET start == hours.intervals[i][1]
                end == hours.intervals[i][2]
            IN  end <= start /\ now_time < end

\* variant: the first day of DAY_ORDER has no previous day
_previous_day_without_wrap(day_key) ==
    IF ~InSeq(DAY_ORDER, day_key) THEN "none"
    ELSE LET index == IndexOf(DAY_ORDER, day_key)
         IN  IF index = 1 THEN "none" ELSE DAY_ORDER[index - 1]

\* DAY_ORDER[index - 1], where index -1 is the last element
_previous_day(day_key) ==
    IF ~InSeq(DAY_ORDER, day_key) THEN "none"
    ELSE LET index == IndexOf(DAY_ORDER, day_key)
         IN  IF index = 1 THEN DAY_ORDER[Len(DAY_ORDER)] ELSE DAY_ORDER[index - 1]

HoursOf(cfg, day_key) ==
    IF day_key \in DOMAIN cfg.opening_hours
    THEN cfg.opening_hours[day_key]
    ELSE Hours("empty", <<>>)

is_open(cfg, now) ==
    LET hours_today == HoursOf(cfg, now.day)
        prev_day == _previous_day(now.day)
    IN  IF _is_open_for_hours(hours_today, now.time) THEN TRUE
        ELSE IF prev_day = "none" THEN FALSE
        ELSE _is_open_from_prev_day(HoursOf(cfg, prev_day), now.time)

RECURSIVE AllItems(_)
AllItems(menu) ==
    IF menu = <<>> THEN <<>> ELSE Head(menu).items \o AllItems(Tail(menu))

find_menu_item(cfg, item_id) ==
    LET items == AllItems(cfg.menu)
        hits == {i \in 1..Len(items) : items[i].id = item_id}
    IN  IF hits = {} THEN None
        ELSE items[CHOOSE i \in hits : \A j \in hits : i <= j]

\* an entry's quantity as both functions read it: int(...), at least 1
EntryQuantity(entry) ==
    Max(entry.quantity, 1)

RECURSIVE calculate_items(_, _)
calculate_items(cart, cfg) ==
    IF cart = <<>> THEN 0
    ELSE LET entry == Head(cart)
             item == find_menu_item(cfg, entry.id)
         IN  (IF entry.id = <<>> \/ item = None THEN 0
              ELSE item.price * EntryQuantity(entry))
             + calculate_items(Tail(cart), cfg)

\* variant: the total without the delivery fee
calculate_total_without_fee(cart, cfg) ==
    calculate_items(cart, cfg)

calculate_total(cart, cfg) ==
    calculate_items(cart, cfg) + cfg.delivery_fee

\* f"{value:.2f}" of an amount in cents: its units and its two decimals
Fmt2(cents) ==
    <<cents \div 100, cents % 100>>

RECURSIVE ItemLines(_, _)
ItemLines(cart, cfg) ==
    IF cart = <<>> THEN <<>>
    ELSE LET entry == Head(cart)
             item == find_menu_item(cfg, entry.id)
         IN  (IF entry.id = <<>> \/ item = None THEN <<>>
              ELSE << <<"item", EntryQuantity(entry), item.name, Fmt2(item.price),
                        Fmt2(item.price * EntryQuantity(entry))>> >>)
             \o ItemLines(Tail(cart), cfg)

\* variant: the Total line leaves the delivery fee out
build_whatsapp_message_items_total(cfg, cart, customer_info) ==
    LET field(label, value) == IF value # <<>> THEN << <<label, value>> >> ELSE <<>>
    IN  << <<"Pedido", cfg.name>> >>
        \o field("Cliente", customer_info.name)
        \o field("Telefone", customer_info.phone)
        \o field("Endereco", customer_info.address)
        \o field("Pagamento", customer_info.payment_method)
        \o << <<"Itens">> >>
        \o ItemLines(cart, cfg)
        \o << <<"Taxa de entrega", Fmt2(cfg.delivery_fee)>> >>
        \o << <<"Total", Fmt2(calculate_items(cart, cfg))>> >>
        \o field("Observacoes", customer_info.notes)

\* the lines of the message, each a tuple that starts with its label
build_whatsapp_message(cfg, cart, customer_info) ==
    LET field(label, value) == IF value # <<>> THEN << <<label, value>> >> ELSE <<>>
    IN  << <<"Pedido", cfg.name>> >>
        \o field("Cliente", customer_info.name)
        \o field("Telefone", customer_info.phone)
        \o field("Endereco", customer_info.address)
        \o field("Pagamento", customer_info.payment_method)
        \o << <<"Itens">> >>
        \o ItemLines(cart, cfg)
        \o << <<"Taxa de entrega", Fmt2(cfg.delivery_fee)>> >>
        \o << <<"Total", Fmt2(calculate_total(cart, cfg))>> >>
        \o field("Observacoes", customer_info.notes)

(***************************************************************************)
(* service.py: CartManager, as functions of the cart list                  *)
(***************************************************************************)
CartEntry(id, quantity) ==
    [id |-> id, quantity |-> quantity]

CartIndex(cart, item_id) ==
    {i \in 1..Len(cart) : cart[i].id = item_id}

FirstIndex(S) ==
    CHOOSE i \in S : \A j \in S : i <= j

\* variant: add() appends a new entry without looking for an existing one
CartManager_add_append(cart, item_id, quantity) ==
    Append(cart, CartEntry(item_id, Max(quantity, 1)))

CartManager_add(cart, item_id, quantity) ==
    LET q == Max(quantity, 1)
        found == CartIndex(cart, item_id)
    IN  IF found # {}
        THEN [cart EXCEPT ![FirstIndex(found)].quantity = @ + q]
        ELSE Append(cart, CartEntry(item_id, q))

\* variant: remove() deletes the entry only when the quantity exceeds it
CartManager_remove_when_more(cart, item_id, quantity) ==
    LET q == Max(quantity, 1)
        found == CartIndex(cart, item_id)
        i == FirstIndex(found)
    IN  IF found = {} THEN [cart |-> cart, removed |-> FALSE]
        ELSE IF q > cart[i].quantity
        THEN [cart |-> SubSeq(cart, 1, i - 1) \o SubSeq(cart, i + 1, Len(cart)),
              removed |-> TRUE]
        ELSE [cart |-> [cart EXCEPT ![i].quantity = @ - q], removed |-> TRUE]

\* the cart after remove(), and whether an entry was found
CartManager_remove(cart, item_id, quantity) ==
    LET q == Max(quantity, 1)
        found == CartIndex(cart, item_id)
        i == FirstIndex(found)
    IN  IF found = {} THEN [cart |-> cart, removed |-> FALSE]
        ELSE IF q >= cart[i].quantity
        THEN [cart |-> SubSeq(cart, 1, i - 1) \o SubSeq(cart, i + 1, Len(cart)),
              removed |-> TRUE]
        ELSE [cart |-> [cart EXCEPT ![i].quantity = @ - q], removed |-> TRUE]

CartManager_has_items(cart) ==
    \E i \in 1..Len(cart) : cart[i].id # <<>>

CartManager_total(cart, cfg) ==
    calculate_total(cart, cfg)

RECURSIVE SummaryLines(_, _)
SummaryLines(cart, cfg) ==
    IF cart = <<>> THEN <<>>
    ELSE LET entry == Head(cart)
             item == find_menu_item(cfg, entry.id)
         IN  (IF entry.id = <<>> \/ item = None THEN <<>>
              ELSE << <<"item", EntryQuantity(entry), item.name,
                        Fmt2(item.price * EntryQuantity(entry))>> >>)
             \o SummaryLines(Tail(cart), cfg)

\* variant: the summary's Total line leaves the delivery fee out
CartManager_summary_text_items_total(cart, cfg) ==
    << <<"Resumo do pedido:">> >>
    \o SummaryLines(cart, cfg)
    \o << <<"Taxa de entrega", Fmt2(cfg.delivery_fee)>> >>
    \o << <<"Total", Fmt2(calculate_items(cart, cfg))>> >>

CartManager_summary_text(cart, cfg) ==
    << <<"Resumo do pedido:">> >>
    \o SummaryLines(cart, cfg)
    \o << <<"Taxa de entrega", Fmt2(cfg.delivery_fee)>> >>
    \o << <<"Total", Fmt2(CartManager_total(cart, cfg))>> >>

_is_beverage_category(category) ==
    LET label == lower(category)
    IN  \/ Contains(label, <<"b","e","b","i","d","a">> (* bebida *))
        \/ Contains(label, <<"d","r","i","n","k">> (* drink *))
        \/ Contains(label, <<"r","e","f","r","i">> (* refri *))
        \/ Contains(label, <<"r","e","f","r","i","g","e","r","a","n","t","e">> (* refrigerante *))

CartManager_has_beverage(cart, item_index) ==
    \E i \in 1..Len(cart) :
        /\ cart[i].id # <<>>
        /\ \E j \in 1..Len(item_index) :
              /\ item_index[j].item.id = cart[i].id
              /\ _is_beverage_category(item_index[j].category)

_find_beverage_item(item_index) ==
    LET hits == {j \in 1..Len(item_index) : _is_beverage_category(item_index[j].category)}
    IN  IF hits = {} THEN None ELSE item_index[FirstIndex(hits)].item

_menu_category_emoji(category) ==
    LET label == lower(category)
    IN  IF Contains(label, <<"p","i","z","z","a">> (* pizza *)) THEN "pizza"
        ELSE IF _is_beverage_category(category) THEN "drink"
        ELSE IF Contains(label, <<"s","o","b","r","e","m","e","s","a">> (* sobremesa *)) \/ Contains(label, <<"d","o","c","e">> (* doce *)) THEN "cake"
        ELSE IF Contains(label, <<"c","o","m","b","o">> (* combo *)) THEN "gift"
        ELSE "clipboard"

RECURSIVE MenuItemLines(_)
MenuItemLines(items) ==
    IF items = <<>> THEN <<>>
    ELSE << <<"item", Head(items).id, Head(items).name, Fmt2(Head(items).price),
              Head(items).description>> >>
         \o MenuItemLines(Tail(items))

RECURSIVE MenuLines(_)
MenuLines(menu) ==
    IF menu = <<>> THEN <<>>
    ELSE << <<_menu_category_emoji(Head(menu).category), upper(Head(menu).category)>> >>
         \o MenuItemLines(Head(menu).items)
         \o MenuLines(Tail(menu))

_menu_text(cfg) ==
    << <<"Cardapio:">> >> \o MenuLines(cfg.menu)

_response_with_notice(text, notice) ==
    IF notice = None THEN text ELSE <<notice>> \o text

_pretty_hours(hours) ==
    IF hours.kind = "closed" THEN << <<"closed">> >>
    ELSE [i \in 1..Len(hours.intervals) |->
            <<hours.intervals[i][1], "as", hours.intervals[i][2]>>]

_closed_message(cfg, now) ==
    LET hours == HoursOf(cfg, now.day)
    IN  IF hours.kind # "empty"
        THEN <<"Estamos fechados agora. Nosso horario de hoje e", _pretty_hours(hours)>>
        ELSE <<"Estamos fechados agora.">>

(***************************************************************************)
(* The utterances a turn may carry, and the moments a turn may happen at   *)
(***************************************************************************)
SayMenu == <<"m","e","n","u">> (* menu *)
SayPromo == <<"p","r","o","m","o">> (* promo *)
SayFinalizar == <<"f","i","n","a","l","i","z","a","r">> (* finalizar *)
SaySim == <<"s","i","m">> (* sim *)
SayEditar == <<"e","d","i","t","a","r">> (* editar *)
SayP1 == <<"p","1">> (* p1 *)
SayTwoPizzas == <<"2"," ","p","i","z","z","a","s"," ","m","a","r","g","h","e","r","i","t","a">> (* 2 pizzas margherita *)
SayGuarana == <<"g","u","a","r","a","n","a">> (* guarana *)
SayTirarP1 == <<"t","i","r","a","r"," ","p","1">> (* tirar p1 *)
SayTirarTwoB1 == <<"t","i","r","a","r"," ","2"," ","b","1">> (* tirar 2 b1 *)
SayJoao == <<"J","o","a~","o">> (* João *)
SaySimone == <<"S","i","m","o","n","e">> (* Simone *)
SayRuaA == <<"R","u","a"," ","A",","," ","1","2","3">> (* Rua A, 123 *)
SayPhone == <<"1","1","9","9","9","9","9","8","8","8","8">> (* 11999998888 *)
SaySeven == <<"7">> (* 7 *)
SayMeuNome == <<"m","e","u"," ","n","o","m","e"," ","e"," ","a","n","a">> (* meu nome e ana *)
SayPhoneShortAddress == <<"1","1","9","9","9","9","9","8","8","8","8"," ","e","n","d","e","r","e","c","o",":"," ","x">> (* 11999998888 endereco: x *)
SaySimPhone == <<"s","i","m"," ","1","1","9","9","9","9","9","8","8","8","8">> (* sim 11999998888 *)
SayFinalizarPhone == <<"f","i","n","a","l","i","z","a","r"," ","1","1","9","9","9","9","9","8","8","8","8">> (* finalizar 11999998888 *)
SayEndereco == <<"E","n","d","e","r","e","c","o",":"," ","R","u","a"," ","B",","," ","4","5">> (* Endereco: Rua B, 45 *)
SayTirarGuaranaPhone == <<"t","i","r","a","r"," ","1"," ","g","u","a","r","a","n","a"," ","1","1","9","9","9","9","9","8","8","8","8">> (* tirar 1 guarana 11999998888 *)

Utterances ==
    { SayMenu, SayPromo, SayFinalizar, SaySim, SayEditar, SayP1, SayTwoPizzas,
      SayGuarana, SayTirarP1, SayTirarTwoB1, SayJoao, SaySimone, SayRuaA, SayPhone,
      SaySeven, SayMeuNome, SayPhoneShortAddress, SaySimPhone, SayFinalizarPhone,
      SayEndereco, SayTirarGuaranaPhone }

\* the utterances that are an item id of some catalog
SayB1 == <<"b","1">> (* b1 *)
SayP10 == <<"p","1","0">> (* p10 *)
SayTwo == <<"2">> (* 2 *)

IdUtterances ==
    { SayP1, SayB1, SayP10, SayTwo }

AllUtterances ==
    Utterances \cup IdUtterances

\* datetime.now(): its day name and its time of day in minutes
Now(day, time) ==
    [day |-> day, time |-> time]

Nows ==
    { Now("monday", HHMM(19, 0)), Now("monday", HHMM(10, 0)) }

(***************************************************************************)
(* What the code computes from an utterance or from the catalog alone is   *)
(* computed once for the modelled utterances and catalogs and looked up    *)
(* afterwards.                                                             *)
(***************************************************************************)
IndexTable ==
    [cfg \in AllConfigs |-> _build_item_index(cfg)]

ItemIndexOf(cfg) ==
    IndexTable[cfg]

IntentTable ==
    [cfg \in AllConfigs |-> [msg \in AllUtterances |-> parse_intent(msg, ItemIndexOf(cfg))]]

IntentOf(cfg, msg) ==
    IntentTable[cfg][msg]

\* _extract_name(message) or message.strip()
NameCandidate(msg) ==
    IF _extract_name(msg) # None THEN _extract_name(msg) ELSE strip(msg)

\* _extract_address(message) or message.strip()
AddressCandidate(msg) ==
    IF _extract_address(msg) # None THEN _extract_address(msg) ELSE strip(msg)

\* the phone lines 642-645 store for a message, None when they store nothing
PhoneCandidate(msg) ==
    IF msg # <<>> /\ _looks_like_phone(msg) THEN _normalize_phone(msg) ELSE None

UtteranceTable ==
    [msg \in AllUtterances |->
        [name |-> NameCandidate(msg),
         valid_name |-> _is_valid_name(NameCandidate(msg)),
         address |-> AddressCandidate(msg),
         valid_address |-> _is_valid_address(AddressCandidate(msg)),
         phone |-> PhoneCandidate(msg)]]

FactsOf(msg) ==
    UtteranceTable[msg]

(***************************************************************************)
(* The state blob.  A key of the Python dict that is absent (or holds an   *)
(* empty value, which the code cannot tell from an absent one) is <<>> for *)
(* the strings of customer_info, "" for step, and "absent" for the legacy  *)
(* flags.                                                                  *)
(***************************************************************************)
CustomerInfo(name, address, phone, payment_method, notes) ==
    [name |-> name, address |-> address, phone |-> phone,
     payment_method |-> payment_method, notes |-> notes]

NoCustomerInfo ==
    CustomerInfo(<<>>, <<>>, <<>>, <<>>, <<>>)

\* the state {} of a new conversation
EmptyState ==
    [cart |-> <<>>,
     customer_info |-> NoCustomerInfo,
     step |-> "",
     pending_confirmation |-> FALSE,
     awaiting_confirmation |-> "absent",
     awaiting_info |-> "absent",
     confirmed |-> "absent"]

\* variant: "confirmation" is not among the values ConversationStep accepts
_coerce_step_without_confirmation(st) ==
    IF st.step # ""
    THEN (IF st.step \in ConversationStep \ {CONFIRMATION} THEN st.step ELSE ORDERING)
    ELSE IF st.awaiting_confirmation = "true" THEN CONFIRMATION
    ELSE IF st.awaiting_info = "name" THEN AWAITING_NAME
    ELSE IF st.awaiting_info = "address" THEN AWAITING_ADDRESS
    ELSE ORDERING

\* variant: the awaiting-info flag is looked at before the confirmation flag
_coerce_step_info_first(st) ==
    IF st.step # ""
    THEN (IF st.step \in ConversationStep THEN st.step ELSE ORDERING)
    ELSE IF st.awaiting_info = "name" THEN AWAITING_NAME
    ELSE IF st.awaiting_info = "address" THEN AWAITING_ADDRESS
    ELSE IF st.awaiting_confirmation = "true" THEN CONFIRMATION
    ELSE ORDERING

_coerce_step(st) ==
    IF st.step # ""
    THEN (IF st.step \in ConversationStep THEN st.step ELSE ORDERING)
    ELSE IF st.awaiting_confirmation = "true" THEN CONFIRMATION
    ELSE IF st.awaiting_info = "name" THEN AWAITING_NAME
    ELSE IF st.awaiting_info = "address" THEN AWAITING_ADDRESS
    ELSE ORDERING

(***************************************************************************)
(* service.py: ConversationManager.  self is the manager: its config, the  *)
(* state dict it mutates (self.step is kept equal to state.step), its item *)
(* index and its closed notice.  Every handler returns the payload of      *)
(* _build_response, with the state as the handler left it.                 *)
(***************************************************************************)
ConversationManager_init(cfg, st, now) ==
    [config |-> cfg,
     state |-> [st EXCEPT !.step = _coerce_step(st),
                          !.awaiting_confirmation = "absent",
                          !.awaiting_info = "absent",
                          !.confirmed = "absent"],
     item_index |-> ItemIndexOf(cfg),
     closed_notice |-> IF is_open(cfg, now) THEN None ELSE _closed_message(cfg, now)]

\* variant: the handoff link is only handed out during the opening hours
_build_response_link_when_open(self, text, whatsapp_link) ==
    [text |-> _response_with_notice(text, self.closed_notice),
     state |-> self.state,
     whatsapp_link |-> IF self.closed_notice = None THEN whatsapp_link ELSE None]

_build_response(self, text, whatsapp_link) ==
    [text |-> _response_with_notice(text, self.closed_notice),
     state |-> self.state,
     whatsapp_link |-> whatsapp_link]

SetStep(self, step) ==
    [self EXCEPT !.state.step = step]

_missing_info_prompt(self) ==
    IF self.state.customer_info.name = <<>>
    THEN <<"Antes de finalizar, preciso do seu nome.">>
    ELSE IF self.state.customer_info.address = <<>>
    THEN <<"Antes de finalizar, preciso do seu endereco.">>
    ELSE <<"">>

\* variant: finalize does not ask for a missing name
_finalize_order_without_name(self) ==
    LET st == self.state
        phone == st.customer_info.phone
        wa_message == build_whatsapp_message(self.config, st.cart, st.customer_info)
        wa_link == <<"https://wa.me/", self.config.whatsapp_number, "?text=",
                     <<"quote", wa_message>> >>
    IN  IF ~CartManager_has_items(st.cart)
        THEN _build_response(SetStep(self, ORDERING),
                << <<"Seu carrinho esta vazio. Escolha um item do cardapio.">> >>, None)
        ELSE IF st.customer_info.address = <<>>
        THEN _build_response(
                [self EXCEPT !.state.step = AWAITING_ADDRESS,
                             !.state.pending_confirmation = TRUE],
                << <<"Qual o endereco para entrega?">> >>, None)
        ELSE IF phone # <<>> /\ _normalize_phone(phone) = None
        THEN _build_response(self, << <<"Telefone invalido. Pode enviar novamente?">> >>, None)
        ELSE _build_response(
                [self EXCEPT !.state.step = ORDERING,
                             !.state.pending_confirmation = FALSE],
                << <<"Pedido confirmado! Clique no link para enviar via WhatsApp.">> >>,
                wa_link)

_finalize_order(self) ==
    LET st == self.state
        phone == st.customer_info.phone
        wa_message == build_whatsapp_message(self.config, st.cart, st.customer_info)
        \* quote() percent-encodes the message: the link keeps it, marked as quoted
        wa_link == <<"https://wa.me/", self.config.whatsapp_number, "?text=",
                     <<"quote", wa_message>> >>
    IN  IF ~CartManager_has_items(st.cart)
        THEN _build_response(SetStep(self, ORDERING),
                << <<"Seu carrinho esta vazio. Escolha um item do cardapio.">> >>, None)
        ELSE IF st.customer_info.name = <<>>
        THEN _build_response(
                [self EXCEPT !.state.step = AWAITING_NAME,
                             !.state.pending_confirmation = TRUE],
                << <<"Qual seu nome?">> >>, None)
        ELSE IF st.customer_info.address = <<>>
        THEN _build_response(
                [self EXCEPT !.state.step = AWAITING_ADDRESS,
                             !.state.pending_confirmation = TRUE],
                << <<"Qual o endereco para entrega?">> >>, None)
        ELSE IF phone # <<>> /\ _normalize_phone(phone) = None
        THEN _build_response(self, << <<"Telefone invalido. Pode enviar novamente?">> >>, None)
        ELSE _build_response(
                [self EXCEPT !.state.step = ORDERING,
                             !.state.pending_confirmation = FALSE],
                << <<"Pedido confirmado! Clique no link para enviar via WhatsApp.">> >>,
                wa_link)

RECURSIVE PromoLines(_)
PromoLines(promotions) ==
    IF promotions = <<>> THEN <<>>
    ELSE << <<"promo", Head(promotions).message>> >> \o PromoLines(Tail(promotions))

RECURSIVE TriggeredPromos(_, _)
TriggeredPromos(promotions, item_id) ==
    IF promotions = <<>> THEN <<>>
    ELSE (IF Head(promotions).trigger = item_id
          THEN << <<"promo", Head(promotions).message>> >> ELSE <<>>)
         \o TriggeredPromos(Tail(promotions), item_id)

_handle_general(self, intent, msg) ==
    LET cfg == self.config
        cart == self.state.cart
        added == CartManager_add(cart, intent.item.id, intent.quantity)
        removal == CartManager_remove(cart, intent.item.id, intent.quantity)
        beverage == _find_beverage_item(self.item_index)
    IN  IF intent.type = SHOW_MENU
        THEN _build_response(self, _menu_text(cfg), None)
        ELSE IF intent.type = SHOW_PROMOS
        THEN (IF cfg.promotions # <<>>
              THEN _build_response(self,
                      << <<"Promocoes de hoje:">> >> \o PromoLines(cfg.promotions), None)
              ELSE _build_response(self,
                      << <<"No momento nao temos promocoes ativas.">> >>, None))
        ELSE IF intent.type = ADD_ITEM /\ intent.item # None
        THEN _build_response([self EXCEPT !.state.cart = added],
                << <<"Adicionado", intent.quantity, intent.item.name>>,
                   <<"Total parcial (com entrega)", Fmt2(CartManager_total(added, cfg))>> >>
                \o TriggeredPromos(cfg.promotions, intent.item.id)
                \o (IF ~CartManager_has_beverage(added, self.item_index) /\ beverage # None
                    THEN << <<"Quer adicionar", beverage.name, Fmt2(beverage.price)>> >>
                    ELSE <<>>)
                \o << <<"Se quiser finalizar, diga 'finalizar'.">> >>,
                None)
        ELSE IF intent.type = REMOVE_ITEM /\ intent.item # None
        THEN (IF ~removal.removed
              THEN _build_response(self,
                      << <<"Nao encontrei esse item no seu carrinho.">> >>, None)
              ELSE IF ~CartManager_has_items(removal.cart)
              THEN _build_response([self EXCEPT !.state.cart = removal.cart],
                      << <<"Removi o item. Seu carrinho esta vazio.">> >>, None)
              ELSE _build_response([self EXCEPT !.state.cart = removal.cart],
                      << <<"Removi", intent.quantity, intent.item.name,
                           Fmt2(CartManager_total(removal.cart, cfg))>> >>, None))
        ELSE IF intent.type = FINISH
        THEN (IF ~CartManager_has_items(cart)
              THEN _build_response(self,
                      << <<"Seu carrinho esta vazio. Escolha um item do cardapio para continuar.">> >>,
                      None)
              ELSE _build_response(SetStep(self, CONFIRMATION),
                      CartManager_summary_text(cart, cfg)
                      \o << <<"Voce confirma? (sim/nao)">> >>, None))
        ELSE IF intent.type = CONFIRM
        THEN _build_response(self,
                << <<"Se deseja finalizar, diga 'finalizar' e eu resumo o pedido.">> >>, None)
        ELSE _build_response(self,
                << <<"Consigo te ajudar com o cardapio, adicionar itens ou finalizar o pedido. Diga 'menu' para ver os itens.">> >>,
                None)

\* variant: only confirm is special in CONFIRMATION
_handle_confirmation_confirm_only(self, intent, msg) ==
    IF intent.type = CONFIRM THEN _finalize_order(self)
    ELSE _handle_general(self, intent, msg)

_handle_confirmation(self, intent, msg) ==
    LET general == _handle_general(self, intent, msg)
    IN  IF intent.type = CONFIRM THEN _finalize_order(self)
        ELSE IF intent.type = EDIT
        THEN _build_response(SetStep(self, ORDERING),
                << <<"Sem problemas. Diga o item que deseja adicionar ou remover.">> >>, None)
        ELSE IF intent.type \in {ADD_ITEM, REMOVE_ITEM}
        THEN [general EXCEPT !.text =
                 @ \o CartManager_summary_text(general.state.cart, self.config)
                   \o << <<"Voce confirma? (sim/nao)">> >>]
        ELSE _build_response(self,
                << <<"Para finalizar, responda 'sim'. Para mudar o pedido, diga 'editar'.">> >>,
                None)

\* variant: remove-item is not among the intents handled while collecting
_handle_customer_info_without_remove(self, msg, intent) ==
    LET general == _handle_general(self, intent, msg)
        name == FactsOf(msg).name
        address == FactsOf(msg).address
        withAddress == [self EXCEPT !.state.customer_info.address = address,
                                    !.state.step = ORDERING]
    IN  IF intent.type \in {SHOW_MENU, SHOW_PROMOS, ADD_ITEM}
        THEN [general EXCEPT !.text =
                 @ \o << _missing_info_prompt([self EXCEPT !.state = general.state]) >>]
        ELSE IF intent.type = CONFIRM
        THEN _build_response(self,
                << <<"Antes de confirmar, preciso do seu nome e endereco.">> >>, None)
        ELSE IF self.state.step = AWAITING_NAME
        THEN (IF ~FactsOf(msg).valid_name
              THEN _build_response(self,
                      << <<"Nao consegui entender seu nome. Pode repetir?">> >>, None)
              ELSE _build_response(
                      [self EXCEPT !.state.customer_info.name = name,
                                   !.state.step = AWAITING_ADDRESS],
                      << <<"Obrigado! Qual o endereco para entrega?">> >>, None))
        ELSE IF ~FactsOf(msg).valid_address
        THEN _build_response(self, << <<"Endereco invalido. Pode enviar novamente?">> >>, None)
        ELSE IF self.state.pending_confirmation
        THEN _finalize_order([withAddress EXCEPT !.state.pending_confirmation = FALSE])
        ELSE _build_response(withAddress,
                << <<"Perfeito! Posso ajudar com mais algum item?">> >>, None)

\* variant: the pending flag is not dropped before finalize runs
_handle_customer_info_keeps_pending(self, msg, intent) ==
    LET general == _handle_general(self, intent, msg)
        name == FactsOf(msg).name
        address == FactsOf(msg).address
        withAddress == [self EXCEPT !.state.customer_info.address = address,
                                    !.state.step = ORDERING]
    IN  IF intent.type \in {SHOW_MENU, SHOW_PROMOS, ADD_ITEM, REMOVE_ITEM}
        THEN [general EXCEPT !.text =
                 @ \o << _missing_info_prompt([self EXCEPT !.state = general.state]) >>]
        ELSE IF intent.type = CONFIRM
        THEN _build_response(self,
                << <<"Antes de confirmar, preciso do seu nome e endereco.">> >>, None)
        ELSE IF self.state.step = AWAITING_NAME
        THEN (IF ~FactsOf(msg).valid_name
              THEN _build_response(self,
                      << <<"Nao consegui entender seu nome. Pode repetir?">> >>, None)
              ELSE _build_response(
                      [self EXCEPT !.state.customer_info.name = name,
                                   !.state.step = AWAITING_ADDRESS],
                      << <<"Obrigado! Qual o endereco para entrega?">> >>, None))
        ELSE IF ~FactsOf(msg).valid_address
        THEN _build_response(self, << <<"Endereco invalido. Pode enviar novamente?">> >>, None)
        ELSE IF self.state.pending_confirmation
        THEN _finalize_order(withAddress)
        ELSE _build_response(withAddress,
                << <<"Perfeito! Posso ajudar com mais algum item?">> >>, None)

_handle_customer_info(self, msg, intent) ==
    LET general == _handle_general(self, intent, msg)
        name == FactsOf(msg).name
        address == FactsOf(msg).address
        withAddress == [self EXCEPT !.state.customer_info.address = address,
                                    !.state.step = ORDERING]
    IN  IF intent.type \in {SHOW_MENU, SHOW_PROMOS, ADD_ITEM, REMOVE_ITEM}
        THEN [general EXCEPT !.text =
                 @ \o << _missing_info_prompt([self EXCEPT !.state = general.state]) >>]
        ELSE IF intent.type = CONFIRM
        THEN _build_response(self,
                << <<"Antes de confirmar, preciso do seu nome e endereco.">> >>, None)
        ELSE IF self.state.step = AWAITING_NAME
        THEN (IF ~FactsOf(msg).valid_name
              THEN _build_response(self,
                      << <<"Nao consegui entender seu nome. Pode repetir?">> >>, None)
              ELSE _build_response(
                      [self EXCEPT !.state.customer_info.name = name,
                                   !.state.step = AWAITING_ADDRESS],
                      << <<"Obrigado! Qual o endereco para entrega?">> >>, None))
        ELSE IF ~FactsOf(msg).valid_address
        THEN _build_response(self, << <<"Endereco invalido. Pode enviar novamente?">> >>, None)
        ELSE IF self.state.pending_confirmation
        THEN _finalize_order([withAddress EXCEPT !.state.pending_confirmation = FALSE])
        ELSE _build_response(withAddress,
                << <<"Perfeito! Posso ajudar com mais algum item?">> >>, None)

handle_message(self, msg) ==
    LET intent == IntentOf(self.config, msg)
    IN  IF self.state.step \in {AWAITING_NAME, AWAITING_ADDRESS}
        THEN _handle_customer_info(self, msg, intent)
        ELSE IF self.state.step = CONFIRMATION
        THEN _handle_confirmation(self, intent, msg)
        ELSE _handle_general(self, intent, msg)

\* lines 642-645: a message that looks like a phone number is stored as the phone
CapturePhone(msg, st) ==
    IF FactsOf(msg).phone # None
    THEN [st EXCEPT !.customer_info.phone = FactsOf(msg).phone]
    ELSE st

\* variant: the message is never looked at for a phone number
process_message_without_capture(cfg, msg, st, now) ==
    handle_message(ConversationManager_init(cfg, st, now), msg)

process_message(cfg, msg, st, now) ==
    handle_message(ConversationManager_init(cfg, CapturePhone(msg, st), now), msg)

(***************************************************************************)
(* The conversation: the caller feeds each turn the state the last turn    *)
(* returned.  Spec starts from the empty state; SpecAny from any state     *)
(* blob a caller may hold.                                                 *)
(***************************************************************************)
MaxQuantity == 2

NoResponse ==
    [text |-> <<>>, whatsapp_link |-> None]

NoFlow ==
    [stage |-> 0, free |-> TRUE, phoneOk |-> TRUE]

FreeText(intent) ==
    intent.type \notin {SHOW_MENU, SHOW_PROMOS, ADD_ITEM, REMOVE_ITEM, CONFIRM}

PhoneUsable(phone) ==
    phone = <<>> \/ _normalize_phone(phone) # None

\* history of a run confirm -> valid name -> valid address that starts in
\* CONFIRMATION with a non-empty cart and neither name nor address stored
FlowNext(f, cfg, msg, st) ==
    LET intent == IntentOf(cfg, msg)
        before == CapturePhone(msg, st)
    IN  IF /\ _coerce_step(st) = CONFIRMATION
           /\ CartManager_has_items(st.cart)
           /\ st.customer_info.name = <<>>
           /\ st.customer_info.address = <<>>
           /\ intent.type = CONFIRM
        THEN [stage |-> 1, free |-> TRUE, phoneOk |-> PhoneUsable(before.customer_info.phone)]
        ELSE IF f.stage = 1 /\ FactsOf(msg).valid_name
        THEN [f EXCEPT !.stage = 2, !.free = f.free /\ FreeText(intent)]
        ELSE IF f.stage = 2 /\ FactsOf(msg).valid_address
        THEN [f EXCEPT !.stage = 3, !.free = f.free /\ FreeText(intent)]
        ELSE NoFlow

WithinBounds(st) ==
    \A i \in 1..Len(st.cart) : st.cart[i].quantity <= MaxQuantity

\* one request: restaurant_chat hands the utterance and the caller's state to
\* process_message and returns its payload
Turn(msg, now) ==
    /\ response = NoResponse
    /\ \E payload \in {process_message(config, msg, state, now)} :
          /\ WithinBounds(payload.state)
          /\ state' = payload.state
          /\ response' = [text |-> payload.text, whatsapp_link |-> payload.whatsapp_link]
    /\ prev' = state
    /\ message' = msg
    /\ flow' = FlowNext(flow, config, msg, state)
    /\ UNCHANGED config

\* the caller keeps the returned state for its next request
NextRequest ==
    /\ response # NoResponse
    /\ prev' = state
    /\ message' = <<>>
    /\ response' = NoResponse
    /\ UNCHANGED <<config, state, flow>>

Next ==
    \/ \E msg \in Utterances, now \in Nows : Turn(msg, now)
    \/ NextRequest

InitFrom(states) ==
    /\ config \in Configs
    /\ state \in states
    /\ prev = state
    /\ message = <<>>
    /\ response = NoResponse
    /\ flow = NoFlow

Init ==
    InitFrom({EmptyState})

Spec ==
    Init /\ [][Next]_vars

\* the blobs a caller may hand in: canonical and legacy step shapes, a few
\* carts, stored or missing customer fields, a stored phone valid or not
AnyStepShapes ==
    { [step |-> s, awaiting_confirmation |-> "absent", awaiting_info |-> "absent",
       confirmed |-> "absent"] : s \in ConversationStep \cup {"", "bogus"} }
    \cup
    { [step |-> "", awaiting_confirmation |-> c, awaiting_info |-> i, confirmed |-> "true"] :
        c \in {"absent", "true"}, i \in {"name", "address"} }

AnyCarts ==
    { <<>>,
      <<CartEntry(ItemP1.id, 1)>>,
      <<CartEntry(ItemB1.id, 2), CartEntry(ItemP1.id, 1)>> }

AnyStates ==
    { [cart |-> c,
       customer_info |-> CustomerInfo(n, a, p, <<>>, <<>>),
       step |-> shape.step,
       pending_confirmation |-> pend,
       awaiting_confirmation |-> shape.awaiting_confirmation,
       awaiting_info |-> shape.awaiting_info,
       confirmed |-> shape.confirmed] :
        c \in AnyCarts,
        n \in {<<>>, <<"A","n","a">> (* Ana *)},
        a \in {<<>>, <<"R","u","a"," ","B",","," ","4","5">> (* Rua B, 45 *)},
        p \in {<<>>, <<"1","2","3">> (* 123 *), <<"1","1","9","9","9","9","9","8","8","8","8">> (* 11999998888 *)},
        pend \in BOOLEAN,
        shape \in AnyStepShapes }

InitAny ==
    InitFrom(AnyStates)

SpecAny ==
    InitAny /\ [][Next]_vars

\* conversations over every catalog, ordering by item id from the empty state
CatalogUtterances ==
    IdUtterances \cup {SayFinalizar, SaySim, SayJoao, SayRuaA, SayTirarP1}

InitCatalogs ==
    /\ config \in AllConfigs
    /\ state = EmptyState
    /\ prev = state
    /\ message = <<>>
    /\ response = NoResponse
    /\ flow = NoFlow

NextCatalogs ==
    \/ \E msg \in CatalogUtterances, now \in Nows : Turn(msg, now)
    \/ NextRequest

SpecCatalogs ==
    InitCatalogs /\ [][NextCatalogs]_vars

(***************************************************************************)
(* parse_intent applied on its own to ordering phrases: an optional        *)
(* opener, an optional quantity cue, the words naming an item.  The        *)
(* recognised intent is kept in the response.                              *)
(***************************************************************************)
DigitCues ==
    { << <<"1">> (* 1 *), 1 >>, << <<"2">> (* 2 *), 2 >>, << <<"3">> (* 3 *), 3 >>, << <<"4">> (* 4 *), 4 >>,
      << <<"5">> (* 5 *), 5 >>, << <<"6">> (* 6 *), 6 >>, << <<"7">> (* 7 *), 7 >>, << <<"8">> (* 8 *), 8 >>,
      << <<"9">> (* 9 *), 9 >>, << <<"1","0">> (* 10 *), 10 >>, << <<"1","1">> (* 11 *), 11 >>, << <<"1","2">> (* 12 *), 12 >> }

QuantityCues ==
    DigitCues \cup NUMBER_WORDS

ItemPhrases ==
    { <<"p","i","z","z","a"," ","m","a","r","g","h","e","r","i","t","a">> (* pizza margherita *), <<"p","i","z","z","a","s"," ","m","a","r","g","h","e","r","i","t","a">> (* pizzas margherita *), <<"g","u","a","r","a","n","a">> (* guarana *), <<"p","1">> (* p1 *) }

Openers ==
    { <<>>, <<"q","u","e","r","o"," ">> (* quero  *) }

CuePhrase(opener, cue, phrase) ==
    opener \o cue[1] \o <<" ">> (* ' ' *) \o phrase

OrderingPhrases ==
    { CuePhrase(opener, cue, phrase) :
          opener \in Openers, cue \in QuantityCues, phrase \in ItemPhrases }
    \cup { opener \o phrase : opener \in Openers, phrase \in ItemPhrases }

Recognised(intent) ==
    [text |-> <<>>, whatsapp_link |-> None, intent |-> intent]

\* words that carry a keyword of one of the command sets (1 menu, 2 promotions,
\* 3 finish, 4 confirm, 5 edit) and words that carry none (6): removal
\* keywords, an item's id and name, a number, a filler
CommandWords ==
    { << <<"m","e","n","u">> (* menu *), 1 >>, << <<"C","a","r","d","a","p","i","o">> (* Cardapio *), 1 >>, << <<"p","r","o","m","o">> (* promo *), 2 >>,
      << <<"f","i","n","a","l","i","z","a","r">> (* finalizar *), 3 >>, << <<"c","h","e","c","k","o","u","t">> (* checkout *), 3 >>, << <<"s","i","m">> (* sim *), 4 >>,
      << <<"o","k">> (* ok *), 4 >>, << <<"N","a~","o">> (* Não *), 5 >>, << <<"e","d","i","t","a","r">> (* editar *), 5 >>,
      << <<"t","i","r","a","r">> (* tirar *), 6 >>, << <<"r","e","m","o","v","e","r">> (* remover *), 6 >>, << <<"p","1">> (* p1 *), 6 >>,
      << <<"g","u","a","r","a","n","a">> (* guarana *), 6 >>, << <<"p","i","z","z","a"," ","m","a","r","g","h","e","r","i","t","a">> (* pizza margherita *), 6 >>, << <<"2">> (* 2 *), 6 >>,
      << <<"q","u","e","r","o">> (* quero *), 6 >> }

WordPair(first, second) ==
    first[1] \o <<" ">> (* ' ' *) \o second[1]

CommandPhrases ==
    { word[1] : word \in CommandWords }
    \cup { WordPair(first, second) : first \in CommandWords, second \in CommandWords }

Recognise(msg) ==
    /\ response = NoResponse
    /\ message' = msg
    /\ response' = Recognised(parse_intent(msg, ItemIndexOf(config)))
    /\ UNCHANGED <<config, state, prev, flow>>

NextIntent ==
    \/ \E msg \in OrderingPhrases \cup CommandPhrases : Recognise(msg)
    \/ NextRequest

SpecIntent ==
    InitFrom({EmptyState}) /\ [][NextIntent]_vars

(***************************************************************************)
(* Conversations from the empty state that remember, in flow, the cart the *)
(* state held at the user's most recent confirm in CONFIRMATION.           *)
(***************************************************************************)
CheckoutUtterances ==
    { SayP1, SayGuarana, SayTirarP1, SayMenu, SayFinalizar, SaySim, SayEditar,
      SayJoao, SayRuaA, SayPhone }

ConfirmedCart(cart) ==
    [stage |-> 1, free |-> TRUE, phoneOk |-> TRUE, cart |-> cart]

ConfirmedNext(f, cfg, msg, st) ==
    IF _coerce_step(st) = CONFIRMATION /\ IntentOf(cfg, msg).type = CONFIRM
    THEN ConfirmedCart(st.cart)
    ELSE f

CheckoutTurn(msg, now) ==
    /\ response = NoResponse
    /\ \E payload \in {process_message(config, msg, state, now)} :
          /\ WithinBounds(payload.state)
          /\ state' = payload.state
          /\ response' = [text |-> payload.text, whatsapp_link |-> payload.whatsapp_link]
    /\ prev' = state
    /\ message' = msg
    /\ flow' = ConfirmedNext(flow, config, msg, state)
    /\ UNCHANGED config

NextCheckout ==
    \/ \E msg \in CheckoutUtterances, now \in Nows : CheckoutTurn(msg, now)
    \/ NextRequest

SpecCheckout ==
    Init /\ [][NextCheckout]_vars

(***************************************************************************)
(* _match_item applied on its own to utterances of one to three words,     *)
(* over the catalog whose item names share words.  The matched item's id,  *)
(* or None, is kept in the response.                                       *)
(***************************************************************************)
MatchWords ==
    { <<"c","a","l","a","b","r","e","s","a">> (* calabresa *), <<"c","a","l","a","b","r","e","s","a","s">> (* calabresas *), <<"l","a","r","a","n","j","a">> (* laranja *), <<"s","u","c","o">> (* suco *), <<"b","o","l","o">> (* bolo *), <<"q","u","e","r","o">> (* quero *) }

MatchPhrases ==
    MatchWords
    \cup { a \o <<" ">> (* ' ' *) \o b : a \in MatchWords, b \in MatchWords }
    \cup { a \o <<" ">> (* ' ' *) \o b \o <<" ">> (* ' ' *) \o c : a \in MatchWords, b \in MatchWords, c \in MatchWords }

Matched(indexed) ==
    [text |-> <<>>, whatsapp_link |-> None,
     matched |-> IF indexed = None THEN None ELSE indexed.item.id]

Match(msg) ==
    /\ response = NoResponse
    /\ message' = msg
    /\ response' = Matched(_match_item(msg, ItemIndexOf(config)))
    /\ UNCHANGED <<config, state, prev, flow>>

InitMatch ==
    /\ config = SharedWordsConfig
    /\ state = EmptyState
    /\ prev = state
    /\ message = <<>>
    /\ response = NoResponse
    /\ flow = NoFlow

NextMatch ==
    \/ \E msg \in MatchPhrases : Match(msg)
    \/ NextRequest

SpecMatch ==
    InitMatch /\ [][NextMatch]_vars

(***************************************************************************)
(* CartManager on its own: add, remove and total called in any order on    *)
(* the cart of the state.  prev is the state before the last call, the     *)
(* response records the call and what it returned, and flow records the    *)
(* call before it.  The quantity of a call is an Intent's quantity, which  *)
(* _extract_quantity makes at least 1.                                     *)
(***************************************************************************)
UnknownId == <<"x","9">> (* x9 *)

CartIds ==
    { ItemP1.id, ItemB1.id, UnknownId }

CartCall(op, item_id, quantity, returned) ==
    [text |-> <<>>, whatsapp_link |-> None, op |-> op, item_id |-> item_id,
     quantity |-> quantity, returned |-> returned]

\* the call before the last one, and whether the cart it acted on had an
\* entry for its item
CartHistory(call, had_entry) ==
    [stage |-> 0, free |-> TRUE, phoneOk |-> TRUE, call |-> call, had_entry |-> had_entry]

CartFlowNext ==
    IF response = NoResponse THEN NoFlow
    ELSE CartHistory(response, CartIndex(prev.cart, response.item_id) # {})

CartWithin(cart) ==
    \A i \in 1..Len(cart) : cart[i].quantity <= 2 * MaxQuantity

CartAdd(item_id, quantity) ==
    /\ \E cart \in {CartManager_add(state.cart, item_id, quantity)} :
          /\ CartWithin(cart)
          /\ state' = [state EXCEPT !.cart = cart]
    /\ prev' = state
    /\ message' = item_id
    /\ response' = CartCall("add", item_id, quantity, None)
    /\ flow' = CartFlowNext
    /\ UNCHANGED config

CartRemove(item_id, quantity) ==
    /\ \E result \in {CartManager_remove(state.cart, item_id, quantity)} :
          /\ state' = [state EXCEPT !.cart = result.cart]
          /\ response' = CartCall("remove", item_id, quantity, result.removed)
    /\ prev' = state
    /\ message' = item_id
    /\ flow' = CartFlowNext
    /\ UNCHANGED config

CartTotal ==
    /\ response' = CartCall("total", <<>>, 0, CartManager_total(state.cart, config))
    /\ prev' = state
    /\ message' = <<>>
    /\ flow' = CartFlowNext
    /\ UNCHANGED <<config, state>>

NextCart ==
    \/ \E item_id \in CartIds, quantity \in 1..MaxQuantity : CartAdd(item_id, quantity)
    \/ \E item_id \in CartIds, quantity \in 1..MaxQuantity : CartRemove(item_id, quantity)
    \/ CartTotal

SpecCart ==
    InitFrom({EmptyState}) /\ [][NextCart]_vars

(***************************************************************************)
(* is_open on its own: the clock is read at any minute of any day of the   *)
(* week, under each of the opening hours; the response records the moment  *)
(* and what is_open returned for it.                                       *)
(***************************************************************************)
Days ==
    {DAY_ORDER[i] : i \in 1..Len(DAY_ORDER)}

Moments ==
    {Now(day, time) : day \in Days, time \in 0..(HHMM(24, 0) - 1)}

ClockRead(now, open) ==
    [text |-> <<>>, whatsapp_link |-> None, now |-> now, open |-> open]

Clock(now) ==
    /\ response = NoResponse
    /\ response' = ClockRead(now, is_open(config, now))
    /\ UNCHANGED <<config, state, prev, message, flow>>

ClockDone ==
    /\ response # NoResponse
    /\ response' = NoResponse
    /\ UNCHANGED <<config, state, prev, message, flow>>

InitHours ==
    /\ config \in HoursConfigs
    /\ state = EmptyState
    /\ prev = state
    /\ message = <<>>
    /\ response = NoResponse
    /\ flow = NoFlow

NextHours ==
    \/ \E now \in Moments : Clock(now)
    \/ ClockDone

SpecHours ==
    InitHours /\ [][NextHours]_vars

\* the last turn, as the properties below speak of it
Turned ==
    response # NoResponse

StepBefore ==
    _coerce_step(prev)

LastIntent ==
    IntentOf(config, message)

(***************************************************************************)
(* What the last turn did, in the words of the properties below            *)
(***************************************************************************)
Link ==
    response.whatsapp_link

Replied(label) ==
    \E i \in 1..Len(response.text) : response.text[i][1] = label

RECURSIVE QtyOf(_, _)
QtyOf(cart, item_id) ==
    IF cart = <<>> THEN 0
    ELSE (IF Head(cart).id = item_id THEN Head(cart).quantity ELSE 0)
         + QtyOf(Tail(cart), item_id)

CatalogIds ==
    {ItemIndexOf(config)[i].item.id : i \in 1..Len(ItemIndexOf(config))}

PhoneAfterCapture ==
    IF FactsOf(message).phone # None THEN FactsOf(message).phone
    ELSE prev.customer_info.phone

\* step, cart, pending flag and every customer field but the phone are as before
SameExceptPhone ==
    /\ state.step = StepBefore
    /\ state.cart = prev.cart
    /\ state.pending_confirmation = prev.pending_confirmation
    /\ state.customer_info.name = prev.customer_info.name
    /\ state.customer_info.address = prev.customer_info.address
    /\ state.customer_info.payment_method = prev.customer_info.payment_method
    /\ state.customer_info.notes = prev.customer_info.notes

SameState ==
    SameExceptPhone /\ state.customer_info.phone = prev.customer_info.phone

\* a candidate name of at least 2 characters after trimming, with a letter
Plausible(name) ==
    /\ Len(strip(name)) >= 2
    /\ \E i \in 1..Len(name) : IsAlpha(name[i])

\* finalize runs on confirm in CONFIRMATION, and after a valid address was
\* collected while a finalize was pending
FinalizeOnConfirm ==
    Turned /\ StepBefore = CONFIRMATION /\ LastIntent.type = CONFIRM

FinalizeOnAddress ==
    /\ Turned
    /\ StepBefore = AWAITING_ADDRESS
    /\ FreeText(LastIntent)
    /\ Len(strip(AddressCandidate(message))) >= 6
    /\ prev.pending_confirmation

FinalizeAttempted ==
    FinalizeOnConfirm \/ FinalizeOnAddress

\* the address finalize finds
AddressAtFinalize ==
    IF FinalizeOnAddress THEN AddressCandidate(message) ELSE prev.customer_info.address

\* the Total line of the message inside the link
LinkTotal ==
    LET lines == Link[4][2]
        i == CHOOSE j \in 1..Len(lines) : lines[j][1] = "Total"
    IN  lines[i][2]

(***************************************************************************)
(* C1: in a run from the empty state the cart never holds two entries with *)
(* the same item id, and every entry has quantity at least 1.              *)
(***************************************************************************)
C1_CartKeyedById ==
    /\ \A i, j \in 1..Len(state.cart) : state.cart[i].id = state.cart[j].id => i = j
    /\ \A i \in 1..Len(state.cart) : state.cart[i].quantity >= 1

\* an add-item turn met an entry of its item next to another one and merged
C1_Witness ==
    /\ Turned
    /\ LastIntent.type = ADD_ITEM
    /\ Len(prev.cart) = 2
    /\ QtyOf(prev.cart, LastIntent.item.id) = 1
    /\ QtyOf(state.cart, LastIntent.item.id) = 2

(***************************************************************************)
(* C2: a response carries a handoff link only in a turn where finalize     *)
(* succeeds (cart non-empty, name and address stored, any stored phone     *)
(* valid); in that turn the step becomes ORDERING, the pending flag is     *)
(* cleared and the cart is left as it was.  C2_Original adds, as written,  *)
(* that the customer info is left unchanged too; C2_LinkOnlyOnSuccess says *)
(* instead that it is unchanged except for what the turn itself collected: *)
(* the address on the re-attempt after address collection, and a phone     *)
(* number found in the message.                                            *)
(***************************************************************************)
C2_LinkTurn ==
    /\ CartManager_has_items(state.cart)
    /\ state.customer_info.name # <<>>
    /\ state.customer_info.address # <<>>
    /\ PhoneUsable(state.customer_info.phone)
    /\ state.step = ORDERING
    /\ ~state.pending_confirmation
    /\ state.cart = prev.cart

C2_Original ==
    Turned /\ Link # None =>
        C2_LinkTurn /\ state.customer_info = prev.customer_info

C2_LinkOnlyOnSuccess ==
    Turned /\ Link # None =>
        /\ C2_LinkTurn
        /\ FinalizeAttempted
        /\ state.customer_info.name = prev.customer_info.name
        /\ state.customer_info.payment_method = prev.customer_info.payment_method
        /\ state.customer_info.notes = prev.customer_info.notes
        /\ state.customer_info.address = AddressAtFinalize
        /\ state.customer_info.phone = PhoneAfterCapture

\* a link returned by the re-attempt after the address was collected
C2_Witness ==
    Turned /\ Link # None /\ FinalizeOnAddress

(***************************************************************************)
(* C3: starting in CONFIRMATION with a non-empty cart and no stored name   *)
(* or address, the turns confirm, a valid name, a valid address end with a *)
(* handoff link whose message embeds total() of the cart, and no earlier   *)
(* turn of the three carries a link.  C3_Original takes any message whose  *)
(* candidate name (address) is valid; C3_ConfirmNameAddress takes the name *)
(* and address messages that are recognised as none of show-menu,          *)
(* show-promotions, add-item, remove-item and confirm, and a start without *)
(* an invalid stored phone.                                                *)
(***************************************************************************)
C3_Ends ==
    /\ Link # None
    /\ LinkTotal = Fmt2(CartManager_total(state.cart, config))

C3_Original ==
    /\ Turned /\ flow.stage = 3 => C3_Ends
    /\ Turned /\ flow.stage \in {1, 2} => Link = None

C3_ConfirmNameAddress ==
    /\ Turned /\ flow.stage = 3 /\ flow.free /\ flow.phoneOk => C3_Ends
    /\ Turned /\ flow.stage \in {1, 2} => Link = None

C3_Witness ==
    Turned /\ flow.stage = 3 /\ flow.free /\ flow.phoneOk /\ Link # None

(***************************************************************************)
(* C4: in ORDERING a finish intent with an empty cart leaves the step at   *)
(* ORDERING and the state unchanged; with a non-empty cart it moves to     *)
(* CONFIRMATION, replies with the order summary, carries no link and does  *)
(* not change the cart.  C4_Original as specified; C4_Finish allows, with  *)
(* the empty cart, a phone number found in the message to be stored.       *)
(***************************************************************************)
C4_NonEmpty ==
    /\ state.step = CONFIRMATION
    /\ Replied("Resumo do pedido:")
    /\ \E i \in 1..Len(response.text) :
          response.text[i] = <<"Total", Fmt2(CartManager_total(prev.cart, config))>>
    /\ Link = None
    /\ state.cart = prev.cart

C4_Original ==
    Turned /\ StepBefore = ORDERING /\ LastIntent.type = FINISH =>
        IF ~CartManager_has_items(prev.cart)
        THEN state.step = ORDERING /\ SameState
        ELSE C4_NonEmpty

C4_Finish ==
    Turned /\ StepBefore = ORDERING /\ LastIntent.type = FINISH =>
        IF ~CartManager_has_items(prev.cart)
        THEN /\ state.step = ORDERING
             /\ SameExceptPhone
             /\ state.customer_info.phone = PhoneAfterCapture
             /\ Link = None
        ELSE C4_NonEmpty

C4_Witness ==
    /\ Turned /\ StepBefore = ORDERING /\ LastIntent.type = FINISH
    /\ CartManager_has_items(prev.cart)
    /\ state.step = CONFIRMATION

(***************************************************************************)
(* C5: in CONFIRMATION an edit intent moves the step to ORDERING; add-item *)
(* and remove-item apply the cart mutation and the step stays CONFIRMATION *)
(* (also when the removal empties the cart); every other intent but        *)
(* confirm leaves step, cart, customer info and pending flag unchanged.    *)
(* C5_Original as specified; C5_Confirmation allows a phone number found   *)
(* in the message to be stored in the customer info.                       *)
(***************************************************************************)
C5_Mutations ==
    LET item_id == LastIntent.item.id
        q == Max(LastIntent.quantity, 1)
        old == QtyOf(prev.cart, item_id)
    IN  /\ LastIntent.type = EDIT => state.step = ORDERING
        /\ LastIntent.type = ADD_ITEM =>
              /\ state.step = CONFIRMATION
              /\ QtyOf(state.cart, item_id) = old + q
              /\ \A other \in CatalogIds \ {item_id} :
                    QtyOf(state.cart, other) = QtyOf(prev.cart, other)
        /\ LastIntent.type = REMOVE_ITEM =>
              /\ state.step = CONFIRMATION
              /\ QtyOf(state.cart, item_id) = (IF q >= old THEN 0 ELSE old - q)
              /\ \A other \in CatalogIds \ {item_id} :
                    QtyOf(state.cart, other) = QtyOf(prev.cart, other)

C5_Original ==
    Turned /\ StepBefore = CONFIRMATION =>
        /\ C5_Mutations
        /\ LastIntent.type \notin {CONFIRM, EDIT, ADD_ITEM, REMOVE_ITEM} => SameState

C5_Confirmation ==
    Turned /\ StepBefore = CONFIRMATION =>
        /\ C5_Mutations
        /\ LastIntent.type \notin {CONFIRM, EDIT, ADD_ITEM, REMOVE_ITEM} =>
              SameExceptPhone /\ state.customer_info.phone = PhoneAfterCapture

\* a removal in CONFIRMATION emptied the cart and the step stayed
C5_Witness ==
    /\ Turned /\ StepBefore = CONFIRMATION /\ LastIntent.type = REMOVE_ITEM
    /\ prev.cart # <<>>
    /\ state.cart = <<>>
    /\ state.step = CONFIRMATION

(***************************************************************************)
(* C6: an attempted finalize falls back by state: with an empty cart the   *)
(* step becomes ORDERING; else with no stored name it becomes              *)
(* AWAITING_NAME and the pending flag is set; else with no stored address  *)
(* it becomes AWAITING_ADDRESS and the pending flag is set; in none of     *)
(* these cases is a link returned or the cart changed.                     *)
(***************************************************************************)
C6_FinalizeFallbacks ==
    FinalizeAttempted =>
        LET empty == ~CartManager_has_items(prev.cart)
            noName == prev.customer_info.name = <<>>
            noAddress == AddressAtFinalize = <<>>
        IN  /\ empty => state.step = ORDERING
            /\ ~empty /\ noName =>
                  state.step = AWAITING_NAME /\ state.pending_confirmation
            /\ ~empty /\ ~noName /\ noAddress =>
                  state.step = AWAITING_ADDRESS /\ state.pending_confirmation
            /\ empty \/ noName \/ noAddress =>
                  Link = None /\ state.cart = prev.cart

\* confirm with a cart and a name but no address: the address is asked for
C6_Witness ==
    /\ FinalizeAttempted
    /\ CartManager_has_items(prev.cart)
    /\ prev.customer_info.name # <<>>
    /\ prev.customer_info.address = <<>>
    /\ state.step = AWAITING_ADDRESS
    /\ state.pending_confirmation

(***************************************************************************)
(* C7: whenever finalize finds an invalid stored phone (cart non-empty,    *)
(* name and address present), on either trigger path, the reply re-prompts *)
(* for the phone, no link is returned and the step after the turn is       *)
(* CONFIRMATION.                                                           *)
(***************************************************************************)
C7_InvalidPhoneStaysInConfirmation ==
    /\ FinalizeAttempted
    /\ CartManager_has_items(prev.cart)
    /\ prev.customer_info.name # <<>>
    /\ AddressAtFinalize # <<>>
    /\ ~PhoneUsable(PhoneAfterCapture)
    => /\ Replied("Telefone invalido. Pode enviar novamente?")
       /\ Link = None
       /\ state.step = CONFIRMATION

(***************************************************************************)
(* C8: in AWAITING_ADDRESS a free-text message whose extracted address is  *)
(* shorter than 6 characters after trimming leaves the state unchanged;    *)
(* otherwise the address is stored and the step becomes ORDERING, and if   *)
(* the pending flag was set finalize is re-attempted in the same turn and  *)
(* the flag is set afterwards only if finalize set it again.  C8_Original  *)
(* as specified; C8_AddressCollection allows, with the rejected address, a *)
(* phone number found in the message to be stored.                         *)
(***************************************************************************)
C8_Accepted ==
    LET empty == ~CartManager_has_items(prev.cart)
        noName == prev.customer_info.name = <<>>
    IN  /\ state.customer_info.address = AddressCandidate(message)
        /\ state.cart = prev.cart
        /\ ~prev.pending_confirmation =>
              state.step = ORDERING /\ ~state.pending_confirmation /\ Link = None
        /\ prev.pending_confirmation =>
              /\ empty => state.step = ORDERING /\ ~state.pending_confirmation
              /\ ~empty /\ noName =>
                    state.step = AWAITING_NAME /\ state.pending_confirmation
              /\ ~empty /\ ~noName =>
                    /\ state.step = ORDERING
                    /\ ~state.pending_confirmation
                    /\ Link # None <=> PhoneUsable(PhoneAfterCapture)

C8_Original ==
    Turned /\ StepBefore = AWAITING_ADDRESS /\ FreeText(LastIntent) =>
        IF Len(strip(AddressCandidate(message))) < 6
        THEN SameState
        ELSE C8_Accepted

C8_AddressCollection ==
    Turned /\ StepBefore = AWAITING_ADDRESS /\ FreeText(LastIntent) =>
        IF Len(strip(AddressCandidate(message))) < 6
        THEN SameExceptPhone /\ state.customer_info.phone = PhoneAfterCapture
        ELSE C8_Accepted

\* an address of exactly 6 characters was stored and the pending finalize ran
C8_Witness ==
    /\ FinalizeOnAddress
    /\ Len(strip(AddressCandidate(message))) = 6
    /\ state.customer_info.address = AddressCandidate(message)
    /\ Link # None

(***************************************************************************)
(* C9: in AWAITING_NAME a free-text message whose candidate name is not    *)
(* plausible (fewer than 2 characters after trimming, or no letter) leaves *)
(* the state unchanged; a plausible name is stored, the step becomes       *)
(* AWAITING_ADDRESS, and cart and pending flag are unchanged.  C9_Original *)
(* as specified; C9_NameCollection allows, with the rejected name, a phone *)
(* number found in the message to be stored.                               *)
(***************************************************************************)
C9_Accepted ==
    /\ state.customer_info.name = NameCandidate(message)
    /\ state.step = AWAITING_ADDRESS
    /\ state.cart = prev.cart
    /\ state.pending_confirmation = prev.pending_confirmation
    /\ Link = None

C9_Original ==
    Turned /\ StepBefore = AWAITING_NAME /\ FreeText(LastIntent) =>
        IF ~Plausible(NameCandidate(message)) THEN SameState ELSE C9_Accepted

C9_NameCollection ==
    Turned /\ StepBefore = AWAITING_NAME /\ FreeText(LastIntent) =>
        IF ~Plausible(NameCandidate(message))
        THEN SameExceptPhone /\ state.customer_info.phone = PhoneAfterCapture
        ELSE C9_Accepted

\* a name without a letter was rejected in place
C9_Witness ==
    /\ Turned /\ StepBefore = AWAITING_NAME /\ FreeText(LastIntent)
    /\ Len(strip(NameCandidate(message))) >= 2
    /\ ~Plausible(NameCandidate(message))
    /\ state.step = AWAITING_NAME
    /\ state.customer_info.name = <<>>

(***************************************************************************)
(* C10: in AWAITING_NAME and AWAITING_ADDRESS the intents add-item,        *)
(* remove-item, show-menu, show-promotions and confirm never change the    *)
(* step, the stored name and address or the pending flag; add-item and     *)
(* remove-item change the cart exactly as they do in ORDERING; confirm     *)
(* changes nothing at all.  C10_Original as specified; C10_WhileCollecting *)
(* allows, on confirm, a phone number found in the message to be stored.   *)
(***************************************************************************)
CartIfOrdering ==
    process_message(config, message, [prev EXCEPT !.step = ORDERING],
                    CHOOSE now \in Nows : TRUE).state.cart

C10_Frame ==
    /\ state.step = StepBefore
    /\ state.customer_info.name = prev.customer_info.name
    /\ state.customer_info.address = prev.customer_info.address
    /\ state.pending_confirmation = prev.pending_confirmation
    /\ LastIntent.type \in {ADD_ITEM, REMOVE_ITEM} => state.cart = CartIfOrdering
    /\ LastIntent.type \in {SHOW_MENU, SHOW_PROMOS, CONFIRM} => state.cart = prev.cart

C10_Original ==
    /\ Turned
    /\ StepBefore \in {AWAITING_NAME, AWAITING_ADDRESS}
    /\ LastIntent.type \in {ADD_ITEM, REMOVE_ITEM, SHOW_MENU, SHOW_PROMOS, CONFIRM}
    => /\ C10_Frame
       /\ LastIntent.type = CONFIRM => SameState

C10_WhileCollecting ==
    /\ Turned
    /\ StepBefore \in {AWAITING_NAME, AWAITING_ADDRESS}
    /\ LastIntent.type \in {ADD_ITEM, REMOVE_ITEM, SHOW_MENU, SHOW_PROMOS, CONFIRM}
    => /\ C10_Frame
       /\ LastIntent.type = CONFIRM =>
             SameExceptPhone /\ state.customer_info.phone = PhoneAfterCapture

\* an item was removed while the name was being collected
C10_Witness ==
    /\ Turned /\ StepBefore = AWAITING_NAME /\ LastIntent.type = REMOVE_ITEM
    /\ state.cart # prev.cart
    /\ state.step = AWAITING_NAME

(***************************************************************************)
(* C11: in every step a show-menu or show-promotions intent produces the   *)
(* menu or promotion listing as the reply, the menu listing containing     *)
(* every catalog item id, and leaves step, cart, customer info and pending *)
(* flag unchanged.                                                         *)
(***************************************************************************)
MenuListed ==
    /\ Replied("Cardapio:")
    /\ \A item_id \in CatalogIds :
          \E i \in 1..Len(response.text) :
              /\ response.text[i][1] = "item"
              /\ response.text[i][2] = item_id

PromosListed ==
    Replied("Promocoes de hoje:") \/ Replied("No momento nao temos promocoes ativas.")

C11_ListingInEveryStep ==
    Turned /\ LastIntent.type \in {SHOW_MENU, SHOW_PROMOS} =>
        /\ LastIntent.type = SHOW_MENU => MenuListed
        /\ LastIntent.type = SHOW_PROMOS => PromosListed
        /\ SameState

\* the listing part alone, in the steps other than CONFIRMATION
C11_ListingOutsideConfirmation ==
    Turned /\ LastIntent.type \in {SHOW_MENU, SHOW_PROMOS} /\ StepBefore # CONFIRMATION =>
        /\ LastIntent.type = SHOW_MENU => MenuListed
        /\ LastIntent.type = SHOW_PROMOS => PromosListed
        /\ SameState

(***************************************************************************)
(* C12: for every catalog and every item id of it, an utterance equal to   *)
(* that id, processed on the empty state, yields a cart with exactly one   *)
(* entry, with that id and quantity 1.                                     *)
(***************************************************************************)
C12_ItemIdUtterance ==
    Turned /\ prev = EmptyState /\ message \in CatalogIds =>
        state.cart = <<CartEntry(message, 1)>>

\* the same for the ids that no other id of the catalog is part of and that
\* have no digits-only token
C12_PlainIds ==
    Turned /\ prev = EmptyState /\ message \in CatalogIds
    /\ (\A other \in CatalogIds \ {message} : ~Contains(message, other))
    /\ ~isdigit(message) =>
        state.cart = <<CartEntry(message, 1)>>

(***************************************************************************)
(* C13: the quantity extracted for a matched item is the digit or the      *)
(* Portuguese number word (one..twelve, masculine and feminine) found in   *)
(* the two tokens before the item's tokens, and 1 when the utterance has   *)
(* no quantity cue: "2 pizzas margherita" and "duas pizzas margherita"     *)
(* give 2, "pizza margherita" gives 1.                                     *)
(***************************************************************************)
Parsed ==
    response # NoResponse

C13_QuantityCue ==
    Parsed =>
        /\ \A opener \in Openers, phrase \in ItemPhrases :
              /\ message = opener \o phrase => response.intent.quantity = 1
              /\ \A cue \in QuantityCues :
                    message = CuePhrase(opener, cue, phrase) =>
                        response.intent.quantity = cue[2]
        /\ message = <<"2"," ","p","i","z","z","a","s"," ","m","a","r","g","h","e","r","i","t","a">> (* 2 pizzas margherita *) => response.intent.quantity = 2
        /\ message = <<"d","u","a","s"," ","p","i","z","z","a","s"," ","m","a","r","g","h","e","r","i","t","a">> (* duas pizzas margherita *) => response.intent.quantity = 2
        /\ message = <<"p","i","z","z","a"," ","m","a","r","g","h","e","r","i","t","a">> (* pizza margherita *) => response.intent.quantity = 1

\* the same for the cues whose last letter is not an s
C13_CuesNotInS ==
    Parsed =>
        \A opener \in Openers, phrase \in ItemPhrases :
            /\ message = opener \o phrase => response.intent.quantity = 1
            /\ \A cue \in QuantityCues :
                  /\ message = CuePhrase(opener, cue, phrase)
                  /\ cue[1][Len(cue[1])] # "s"
                  => response.intent.quantity = cue[2]

(***************************************************************************)
(* C14: add(itemId, q) on a cart that has an entry for itemId increases    *)
(* that entry's quantity by max(q,1) and changes no other entry and no     *)
(* entry's position; on a cart without it, it appends one new entry at the *)
(* end; adding the same id twice with quantity q to a cart without it      *)
(* yields a single entry with quantity 2q.                                 *)
(***************************************************************************)
Called(op) ==
    response # NoResponse /\ response.op = op

AddedToExisting ==
    /\ Len(state.cart) = Len(prev.cart)
    /\ \A i \in 1..Len(prev.cart) :
          /\ state.cart[i].id = prev.cart[i].id
          /\ state.cart[i].quantity =
                IF i = FirstIndex(CartIndex(prev.cart, response.item_id))
                THEN prev.cart[i].quantity + Max(response.quantity, 1)
                ELSE prev.cart[i].quantity

AddedAtEnd ==
    /\ Len(state.cart) = Len(prev.cart) + 1
    /\ SubSeq(state.cart, 1, Len(prev.cart)) = prev.cart
    /\ state.cart[Len(state.cart)] = CartEntry(response.item_id, Max(response.quantity, 1))

AddedTwice ==
    /\ Called("add")
    /\ flow # NoFlow
    /\ flow.call.op = "add"
    /\ flow.call.item_id = response.item_id
    /\ flow.call.quantity = response.quantity
    /\ ~flow.had_entry

C14_Add ==
    /\ Called("add") =>
          IF CartIndex(prev.cart, response.item_id) # {} THEN AddedToExisting ELSE AddedAtEnd
    /\ AddedTwice =>
          /\ Cardinality(CartIndex(state.cart, response.item_id)) = 1
          /\ QtyOf(state.cart, response.item_id) = 2 * response.quantity

C14_Witness ==
    /\ AddedTwice
    /\ Len(state.cart) = 3
    /\ state.cart[3] = CartEntry(response.item_id, 4)
    /\ prev.cart[3] = CartEntry(response.item_id, 2)

(***************************************************************************)
(* C15: remove(itemId, q) on a cart with an entry for itemId deletes the   *)
(* entry when max(q,1) is at least its quantity and otherwise reduces its  *)
(* quantity by q, and reports that it found one; on a cart without an      *)
(* entry for itemId it leaves the cart as it is, and the remove-item turn  *)
(* replies 'not found' with the whole state unchanged.  C15_Original as    *)
(* specified; C15_Remove allows a phone number found in the message to be  *)
(* stored.                                                                 *)
(***************************************************************************)
NotFound ==
    Replied("Nao encontrei esse item no seu carrinho.")

RemovedFrom(cart, item_id, quantity) ==
    LET i == FirstIndex(CartIndex(cart, item_id))
    IN  IF Max(quantity, 1) >= cart[i].quantity
        THEN [j \in 1..(Len(cart) - 1) |-> IF j < i THEN cart[j] ELSE cart[j + 1]]
        ELSE [j \in 1..Len(cart) |->
                 IF j = i THEN CartEntry(item_id, cart[j].quantity - quantity) ELSE cart[j]]

RemoveTurn ==
    Turned /\ LastIntent.type = REMOVE_ITEM

InCartBefore ==
    CartIndex(prev.cart, LastIntent.item.id) # {}

C15_Found ==
    RemoveTurn /\ InCartBefore =>
        /\ ~NotFound
        /\ state.cart = RemovedFrom(prev.cart, LastIntent.item.id, LastIntent.quantity)

C15_Original ==
    /\ C15_Found
    /\ RemoveTurn /\ ~InCartBefore => NotFound /\ SameState

C15_Remove ==
    /\ C15_Found
    /\ RemoveTurn /\ ~InCartBefore =>
          NotFound /\ SameExceptPhone /\ state.customer_info.phone = PhoneAfterCapture

\* a remove-item turn for an item that is not in the cart stored a phone
C15_Witness ==
    /\ RemoveTurn /\ ~InCartBefore /\ NotFound
    /\ prev.cart # <<>>
    /\ state.customer_info.phone # prev.customer_info.phone

\* remove-item turns that reduced an entry and that deleted one
C15_WitnessReduced ==
    RemoveTurn /\ InCartBefore /\ Len(state.cart) = Len(prev.cart) /\ state.cart # prev.cart

C15_WitnessDeleted ==
    RemoveTurn /\ InCartBefore /\ Len(state.cart) < Len(prev.cart) /\ state.cart # <<>>

(***************************************************************************)
(* C16: for every cart content, the empty cart and carts with ids that are *)
(* not in the catalog included, total() is the sum of price x quantity     *)
(* over the entries whose id is in the catalog, plus the delivery fee.     *)
(***************************************************************************)
RECURSIVE PricedEntries(_, _)
PricedEntries(items, cart) ==
    IF items = <<>> THEN 0
    ELSE Head(items).price * QtyOf(cart, Head(items).id) + PricedEntries(Tail(items), cart)

C16_Total ==
    Called("total") =>
        response.returned = PricedEntries(AllItems(config.menu), state.cart) + config.delivery_fee

C16_Witness ==
    /\ Called("total")
    /\ state.cart = <<CartEntry(UnknownId, 2), CartEntry(ItemP1.id, 2), CartEntry(ItemB1.id, 1)>>
    /\ response.returned = 2 * ItemP1.price + ItemB1.price + config.delivery_fee

C16_WitnessEmpty ==
    Called("total") /\ state.cart = <<>> /\ response.returned = config.delivery_fee

(***************************************************************************)
(* C17: round trip.  The state a turn returns, ingested unmodified at the  *)
(* start of the next turn, before the utterance is handled, has the same   *)
(* step and the same cart; a canonical step value is never re-mapped.      *)
(***************************************************************************)
Ingested(st, now) ==
    ConversationManager_init(config, st, now).state

C17_RoundTrip ==
    /\ Turned =>
          \A now \in Nows :
              /\ Ingested(state, now).step = state.step
              /\ Ingested(state, now).cart = state.cart
    /\ \A now \in Nows :
          prev.step \in ConversationStep => Ingested(prev, now).step = prev.step

\* a turn took a state in the flag form to CONFIRMATION with a cart
C17_Witness ==
    /\ Turned
    /\ prev.step = ""
    /\ state.step = CONFIRMATION
    /\ state.cart # <<>>

(***************************************************************************)
(* C18: in step ORDERING every utterance recognised as the unknown intent  *)
(* gets the generic help reply and leaves the whole conversation state     *)
(* (step, cart, customer info, pending flag) unchanged.  C18_Original as   *)
(* specified; C18_UnknownInOrdering allows a phone number found in the     *)
(* message to be stored.                                                   *)
(***************************************************************************)
GenericHelp ==
    Replied("Consigo te ajudar com o cardapio, adicionar itens ou finalizar o pedido. Diga 'menu' para ver os itens.")

UnknownInOrdering ==
    Turned /\ StepBefore = ORDERING /\ LastIntent.type = UNKNOWN

C18_Original ==
    UnknownInOrdering => GenericHelp /\ SameState

C18_UnknownInOrdering ==
    UnknownInOrdering =>
        /\ GenericHelp
        /\ Link = None
        /\ SameExceptPhone
        /\ state.customer_info.phone = PhoneAfterCapture

\* an unknown utterance in ORDERING replaced the stored phone
C18_Witness ==
    /\ UnknownInOrdering
    /\ GenericHelp
    /\ prev.cart # <<>>
    /\ state.customer_info.phone # prev.customer_info.phone

(***************************************************************************)
(* C19: the closed notice is advisory only.  For every utterance and input *)
(* state, the returned state and the presence of a handoff link are the    *)
(* same whether the moment is inside or outside the opening hours; only    *)
(* the reply text differs, by the notice put in front of it.               *)
(***************************************************************************)
OpenNows ==
    {now \in Nows : is_open(config, now)}

ClosedNows ==
    Nows \ OpenNows

C19_NoticeIsAdvisory ==
    Turned =>
        \A open \in OpenNows, closed \in ClosedNows :
            \E whenOpen \in {process_message(config, message, prev, open)} :
            \E whenClosed \in {process_message(config, message, prev, closed)} :
                /\ state = whenOpen.state
                /\ whenClosed.state = whenOpen.state
                /\ (whenClosed.whatsapp_link = None) <=> (whenOpen.whatsapp_link = None)
                /\ whenClosed.text = <<_closed_message(config, closed)>> \o whenOpen.text
                /\ response.text \in {whenOpen.text, whenClosed.text}

\* an order was finalized, with its handoff link, outside the opening hours
C19_Witness ==
    /\ Turned
    /\ Link # None
    /\ prev.cart # <<>>
    /\ \E closed \in ClosedNows : response.text[1] = _closed_message(config, closed)

(***************************************************************************)
(* C20: an interval whose end is not after its start is a window crossing  *)
(* midnight.  With the window 22:00-02:00 the restaurant is open at 23:30  *)
(* and at 01:00 and closed at 03:00.  In general such a window makes       *)
(* is_open true for the times from its start on, on its own day, and for   *)
(* the times before its end in the early morning of the next day, and      *)
(* false between its end and its start when no other interval covers the   *)
(* time.                                                                   *)
(***************************************************************************)
ClockWasRead ==
    response # NoResponse

NextDay(day) ==
    CASE day = "monday" -> "tuesday"
      [] day = "tuesday" -> "wednesday"
      [] day = "wednesday" -> "thursday"
      [] day = "thursday" -> "friday"
      [] day = "friday" -> "saturday"
      [] day = "saturday" -> "sunday"
      [] day = "sunday" -> "monday"

IntervalsOn(day) ==
    IF day \in DOMAIN config.opening_hours /\ config.opening_hours[day].kind = "intervals"
    THEN config.opening_hours[day].intervals
    ELSE <<>>

Crossing(interval) ==
    interval[2] <= interval[1]

\* the interval, one of the day's own, covers the time
CoversOwnDay(interval, time) ==
    IF Crossing(interval)
    THEN time >= interval[1] \/ time < interval[2]
    ELSE interval[1] <= time /\ time < interval[2]

\* some window of the day before reaches over midnight beyond the time
CoveredFromDayBefore(day, time) ==
    \E before \in Days :
        /\ NextDay(before) = day
        /\ \E k \in 1..Len(IntervalsOn(before)) :
              Crossing(IntervalsOn(before)[k]) /\ time < IntervalsOn(before)[k][2]

C20_General ==
    \A day \in Days :
        \A i \in 1..Len(IntervalsOn(day)) :
            Crossing(IntervalsOn(day)[i]) =>
                /\ response.now.day = day /\ response.now.time >= IntervalsOn(day)[i][1]
                   => response.open
                /\ response.now.day = NextDay(day) /\ response.now.time < IntervalsOn(day)[i][2]
                   => response.open
                /\ /\ response.now.day = day
                   /\ response.now.time >= IntervalsOn(day)[i][2]
                   /\ response.now.time < IntervalsOn(day)[i][1]
                   /\ \A j \in 1..Len(IntervalsOn(day)) :
                         j # i => ~CoversOwnDay(IntervalsOn(day)[j], response.now.time)
                   /\ ~CoveredFromDayBefore(day, response.now.time)
                   => ~response.open

\* friday is 22:00-02:00 and saturday 18:00-23:00
C20_Example ==
    config = RestaurantConfig =>
        /\ response.now = Now("friday", HHMM(23, 30)) => response.open
        /\ response.now = Now("saturday", HHMM(1, 0)) => response.open
        /\ response.now = Now("saturday", HHMM(3, 0)) => ~response.open
        /\ response.now = Now("friday", HHMM(3, 0)) => ~response.open

C20_MidnightWindow ==
    ClockWasRead => C20_General /\ C20_Example

\* saturday 01:00 is open only through friday's window
C20_Witness ==
    /\ ClockWasRead
    /\ config = RestaurantConfig
    /\ response.now = Now("saturday", HHMM(1, 0))
    /\ response.open

\* wednesday 15:00 lies between the end and the start of its crossing window
C20_WitnessClosed ==
    /\ ClockWasRead
    /\ config = SplitShiftConfig
    /\ response.now = Now("wednesday", HHMM(15, 0))
    /\ ~response.open

(***************************************************************************)
(* C21: when the normalized utterance contains a keyword of the menu,      *)
(* promotions, finish, confirm or edit set, parse_intent returns the       *)
(* command of the first set that matches, in that order, and never         *)
(* add-item or remove-item, even when the utterance also contains an       *)
(* item's id or name or a removal keyword.                                 *)
(***************************************************************************)
CommandSets ==
    << MENU_KEYWORDS, PROMO_KEYWORDS, FINISH_KEYWORDS, CONFIRM_KEYWORDS, EDIT_KEYWORDS >>

Commands ==
    << SHOW_MENU, SHOW_PROMOS, FINISH, CONFIRM, EDIT >>

\* the utterance, lower case and without accents, has a keyword of the k-th set
Mentions(k) ==
    \E keyword \in CommandSets[k] : Contains(_normalize_text(message), keyword)

C21_ByKeyword ==
    \A k \in 1..Len(CommandSets) :
        Mentions(k) /\ (\A j \in 1..(k - 1) : ~Mentions(j)) =>
            /\ response.intent.type = Commands[k]
            /\ response.intent.item = None

\* the same by the words the utterance was made of
C21_ByWord ==
    /\ \A word \in CommandWords :
          message = word[1] /\ word[2] <= 5 => response.intent.type = Commands[word[2]]
    /\ \A first \in CommandWords, second \in CommandWords :
          message = WordPair(first, second) /\ Min(first[2], second[2]) <= 5 =>
              response.intent.type = Commands[Min(first[2], second[2])]

C21_CommandFirst ==
    Parsed => C21_ByKeyword /\ C21_ByWord

\* a confirm keyword after an item id, a finish keyword after a removal keyword
\* and an item name
C21_Witness ==
    /\ Parsed
    /\ message = <<"p","i","z","z","a"," ","m","a","r","g","h","e","r","i","t","a"," ","s","i","m">> (* pizza margherita sim *)
    /\ response.intent.type = CONFIRM

C21_WitnessRemoval ==
    /\ Parsed
    /\ message = <<"t","i","r","a","r"," ","f","i","n","a","l","i","z","a","r">> (* tirar finalizar *)
    /\ response.intent.type = FINISH

(***************************************************************************)
(* C22: in token-overlap matching (no id or full-name substring hit) an    *)
(* item is returned only if its count of matching utterance tokens is at   *)
(* least min(2, number of its significant tokens) and strictly greater     *)
(* than every other item's count; when two items tie for the highest       *)
(* count, no item is matched.                                              *)
(***************************************************************************)
SubstringHit ==
    \E i \in 1..Len(ItemIndexOf(config)) :
        \/ Contains(_normalize_text(message), ItemIndexOf(config)[i].id_norm)
        \/ Contains(_normalize_text(message), ItemIndexOf(config)[i].name_norm)

\* the number of tokens of the utterance that match a token of the i-th item
OverlapOf(i) ==
    CountMatches(_tokenize(message), ItemIndexOf(config)[i].tokens)

ByOverlap ==
    response # NoResponse /\ ~SubstringHit

C22_TokenOverlap ==
    ByOverlap =>
        \A i \in 1..Len(ItemIndexOf(config)) :
            response.matched = ItemIndexOf(config)[i].item.id =>
                /\ OverlapOf(i) >= Min(2, Len(ItemIndexOf(config)[i].tokens))
                /\ \A j \in 1..Len(ItemIndexOf(config)) : j # i => OverlapOf(i) > OverlapOf(j)

\* the threshold alone, and the best count without the strictness
C22_ThresholdAndBest ==
    ByOverlap =>
        \A i \in 1..Len(ItemIndexOf(config)) :
            response.matched = ItemIndexOf(config)[i].item.id =>
                /\ OverlapOf(i) >= Min(2, Len(ItemIndexOf(config)[i].tokens))
                /\ \A j \in 1..Len(ItemIndexOf(config)) :
                      OverlapOf(j) >= Min(2, Len(ItemIndexOf(config)[j].tokens)) =>
                          OverlapOf(i) >= OverlapOf(j)

(***************************************************************************)
(* C23: state ingestion maps the step.  A state without a step and with    *)
(* the awaiting-confirmation flag set maps to CONFIRMATION; without a step *)
(* and with awaiting-info "name" / "address" it maps to AWAITING_NAME /    *)
(* AWAITING_ADDRESS; an unrecognized step value maps to ORDERING; anything *)
(* else maps to ORDERING.  After ingestion the step is one of the four     *)
(* canonical values and the legacy flags are gone.  The cases are read in  *)
(* this order: a state with both flags is one with the confirmation flag.  *)
(***************************************************************************)
NoLegacyFlags(st) ==
    /\ st.awaiting_confirmation = "absent"
    /\ st.awaiting_info = "absent"
    /\ st.confirmed = "absent"

StepMapped(before, after) ==
    /\ before.step = "" /\ before.awaiting_confirmation = "true" =>
          after.step = CONFIRMATION
    /\ before.step = "" /\ before.awaiting_confirmation # "true" /\ before.awaiting_info = "name" =>
          after.step = AWAITING_NAME
    /\ before.step = "" /\ before.awaiting_confirmation # "true" /\ before.awaiting_info = "address" =>
          after.step = AWAITING_ADDRESS
    /\ before.step # "" /\ before.step \notin ConversationStep =>
          after.step = ORDERING
    /\ /\ before.step = ""
       /\ before.awaiting_confirmation # "true"
       /\ before.awaiting_info \notin {"name", "address"}
       => after.step = ORDERING
    /\ after.step \in ConversationStep
    /\ NoLegacyFlags(after)

C23_Ingestion ==
    /\ \A now \in Nows : StepMapped(prev, Ingested(prev, now))
    /\ Turned => state.step \in ConversationStep /\ NoLegacyFlags(state)

\* a turn on a state in the flag form, with both flags, was taken as one in
\* CONFIRMATION: "sim" finalized, and the returned state has no flags
C23_Witness ==
    /\ Turned
    /\ prev.step = ""
    /\ prev.awaiting_confirmation = "true"
    /\ prev.awaiting_info = "name"
    /\ Link # None
    /\ NoLegacyFlags(state)

(***************************************************************************)
(* C24: in any run from the empty state, the cart that a successful        *)
(* checkout puts into the handoff message is the cart that was shown at    *)
(* the user's most recent confirm in CONFIRMATION: no cart change made     *)
(* after that confirm, such as an add or a remove while the name or the    *)
(* address is collected, reaches the handoff without a new confirmation.   *)
(***************************************************************************)
CheckedOut ==
    Turned /\ Link # None

C24_HandoffIsConfirmedCart ==
    CheckedOut => flow # NoFlow /\ prev.cart = flow.cart /\ state.cart = flow.cart

\* every checkout comes after a confirm in CONFIRMATION
C24_ConfirmedBefore ==
    CheckedOut => flow # NoFlow

(***************************************************************************)
(* C25: in any run from the empty state, whenever the finalize-pending     *)
(* flag is set in the returned state, the step is AWAITING_NAME or         *)
(* AWAITING_ADDRESS; the flag is never set while the step is ORDERING or   *)
(* CONFIRMATION.                                                           *)
(***************************************************************************)
C25_PendingOnlyWhileCollecting ==
    state.pending_confirmation => state.step \in {AWAITING_NAME, AWAITING_ADDRESS}

\* the cart was emptied while the address was awaited, and the address then
\* ended the collection without a checkout
C25_Witness ==
    /\ Turned
    /\ prev.pending_confirmation
    /\ StepBefore = AWAITING_ADDRESS
    /\ state.step = ORDERING
    /\ Link = None
    /\ ~state.pending_confirmation

(***************************************************************************)
(* C26: in any run from the empty state, step AWAITING_NAME implies that   *)
(* no name is stored, and step AWAITING_ADDRESS implies that a name is     *)
(* stored and no address is stored; so the missing-field reminder always   *)
(* names the field the current step is collecting.                         *)
(***************************************************************************)
Reminded ==
    /\ Turned
    /\ StepBefore \in {AWAITING_NAME, AWAITING_ADDRESS}
    /\ LastIntent.type \in {SHOW_MENU, SHOW_PROMOS, ADD_ITEM, REMOVE_ITEM}

C26_StepNamesMissingField ==
    /\ state.step = AWAITING_NAME => state.customer_info.name = <<>>
    /\ state.step = AWAITING_ADDRESS =>
          state.customer_info.name # <<>> /\ state.customer_info.address = <<>>
    /\ Reminded /\ StepBefore = AWAITING_NAME =>
          Replied("Antes de finalizar, preciso do seu nome.")
    /\ Reminded /\ StepBefore = AWAITING_ADDRESS =>
          Replied("Antes de finalizar, preciso do seu endereco.")

\* an item was added while the address was awaited, and the reminder asked
\* for the address
C26_Witness ==
    /\ Reminded
    /\ StepBefore = AWAITING_ADDRESS
    /\ LastIntent.type = ADD_ITEM
    /\ Replied("Antes de finalizar, preciso do seu endereco.")

(***************************************************************************)
(* C27: while the step is AWAITING_NAME or AWAITING_ADDRESS, an utterance  *)
(* recognised as a finish or edit command is never stored as the           *)
(* customer's name or address and does not advance the step.               *)
(***************************************************************************)
Collecting ==
    Turned /\ StepBefore \in {AWAITING_NAME, AWAITING_ADDRESS}

NothingCaptured ==
    /\ state.customer_info.name = prev.customer_info.name
    /\ state.customer_info.address = prev.customer_info.address
    /\ state.step = StepBefore

C27_CommandNotCaptured ==
    Collecting /\ LastIntent.type \in {FINISH, EDIT} => NothingCaptured

\* the commands that _handle_customer_info does tell apart are not captured
C27_HandledCommandsNotCaptured ==
    Collecting /\ LastIntent.type \in {SHOW_MENU, SHOW_PROMOS, ADD_ITEM, REMOVE_ITEM, CONFIRM}
        => NothingCaptured

====
